---- MODULE Spec2Model ----
(***************************************************************************)
(* Model of the file index of ai-copy-paste (src-tauri):                    *)
(*   - the ignore-rule resolver        (gitignore.rs)                       *)
(*   - the traversal of an index run   (commands/indexing.rs,               *)
(*                                      commands/indexing_traversal.rs)     *)
(*   - the batched persistence         (commands/indexing.rs,               *)
(*                                      commands/indexing_persistence.rs)   *)
(*   - the listing query get_children  (commands/indexing.rs)               *)
(*                                                                         *)
(* Paths are sequences of path components: "/root/src" is <<"root","src">>  *)
(* and "/" is <<>>.  An Option<T> is the empty sequence (None, SQL NULL) or *)
(* a one-element sequence (Some).                                           *)
(***************************************************************************)
EXTENDS Integers, Sequences, FiniteSets, TLC

(***************************************************************************)
(* Bounds of the model.                                                     *)
(***************************************************************************)
MaxMtime == 2
MaxSize == 2
MaxOps == 3
MaxBatch == 2

(***************************************************************************)
(* Option values.                                                           *)
(***************************************************************************)
None == <<>>
Some(x) == <<x>>
IsSome(o) == o # <<>>
Unwrap(o) == o[1]

(***************************************************************************)
(* std::path::Path                                                          *)
(***************************************************************************)
Front(p) == SubSeq(p, 1, Len(p) - 1)

\* Path::parent: None for "/", else the path without its last component.
PathParent(p) == IF p = <<>> THEN None ELSE Some(Front(p))

\* Path::file_name: None for "/", else the last component.
FileName(p) == IF p = <<>> THEN None ELSE Some(p[Len(p)])

\* Path::starts_with: d is a component-wise prefix of p (p itself included).
StartsWith(p, d) == Len(d) <= Len(p) /\ SubSeq(p, 1, Len(d)) = d

\* Path::components().count(): the root directory "/" is a component.
ComponentsCount(p) == Len(p) + 1

(***************************************************************************)
(* The file system the program runs on.                                     *)
(***************************************************************************)
Root == <<"root">>
RootIgnore == <<"root", ".gitignore">>
Src == <<"root", "src">>
SrcIgnore == <<"root", "src", ".gitignore">>
SrcLog == <<"root", "src", "a.log">>
Sl == <<"root", "sl">>
Lnk == <<"lnk">>

\* The paths that have an inode of their own.
FsPaths == {Root, RootIgnore, Src, SrcIgnore, SrcLog, Sl, Lnk}

\* The two symbolic links both point at the directory /root/src.
Target(p) == Src

\* The paths a caller may name: those with an inode, and those reached through
\* one of the symbolic links.
AllPaths ==
    FsPaths \cup {Sl \o <<n>> : n \in {".gitignore", "a.log"}}
            \cup {Lnk \o <<n>> : n \in {".gitignore", "a.log"}}

Mtimes == 1..MaxMtime
Sizes == 1..MaxSize

VARIABLES
    fs,         \* [FsPaths -> [kind, mtime, size, ok]]: the inodes; ok = FALSE
                \* when reading the metadata of the entry fails
    rules,      \* the content of the two rule files: a sequence of rules each
    files,      \* the files table: a set of rows
    respect,    \* the setting respect_gitignore
    pc,         \* "idle", or "persist" while an index run holds the store
    run,        \* the index run in progress, or the last one
    pre,        \* the files table when that run started
    last,       \* Some(what the last index run saw) if it succeeded, else None
    result,     \* what the last command returned
    ops,        \* number of commands and file-system changes so far
    progress,   \* the progress throttle of a traversal: clock, last emission
                \* time, the workers in and around the locked time check
    history,    \* the history table, the clock of created_at, the saves so far
    cache,      \* the text cache: index, cache files, total size, clock
    settings    \* the settings table rows of the sensitive-data keys

vars == <<fs, rules, files, respect, pc, run, pre, last, result, ops, progress,
          history, cache, settings>>

KindAt(f, q) == IF q \in DOMAIN f THEN f[q].kind ELSE "none"

\* The path with every symbolic link in it followed.
RECURSIVE Canon(_, _)
Canon(f, p) ==
    IF p = <<>> THEN <<>>
    ELSE LET q == Append(Canon(f, Front(p)), p[Len(p)])
         IN  IF KindAt(f, q) = "symlink" THEN Target(q) ELSE q

\* The path with the symbolic links of its directory part followed, the last
\* component kept (what lstat looks at).
LCanon(f, p) == IF p = <<>> THEN <<>> ELSE Append(Canon(f, Front(p)), p[Len(p)])

\* std::fs::symlink_metadata(p).file_type() / std::fs::metadata(p).file_type()
LKind(f, p) == KindAt(f, LCanon(f, p))
Kind(f, p) == KindAt(f, Canon(f, p))

\* An existence test that every path passes.
ExistsAlways(f, p) == TRUE

\* Path::exists: follows symbolic links.
Exists(f, p) == Kind(f, p) # "none"

\* The entries of the directory p (std::fs::read_dir, walkdir's read of a
\* directory it descends into).
ReadDir(f, p) == {q \in AllPaths : q # <<>> /\ Front(q) = p /\ LKind(f, q) # "none"}

(***************************************************************************)
(* Rule files (ignore::gitignore).  A rule is one line of a rule file:      *)
(*   "*"      [kind |-> "any"]                                              *)
(*   "*.log"  [kind |-> "suffix",  text |-> ".log"]                         *)
(*   "src"    [kind |-> "literal", text |-> "src"]                          *)
(* preceded by "!" when neg, followed by "/" when dirOnly.  None of these    *)
(* lines holds a slash inside, so each is matched against the final         *)
(* component of the path at any depth below the rule file.                  *)
(***************************************************************************)
Rule(neg, dirOnly, kind, text) ==
    [neg |-> neg, dirOnly |-> dirOnly, kind |-> kind, text |-> text]

StarLog == Rule(FALSE, FALSE, "suffix", ".log")            \* *.log
Star == Rule(FALSE, FALSE, "any", "")                      \* *
NotALog == Rule(TRUE, FALSE, "literal", "a.log")           \* !a.log
NotImportantLog == Rule(TRUE, FALSE, "literal", "important.log")  \* !important.log
SrcDir == Rule(FALSE, TRUE, "literal", "src")              \* src/
NotSl == Rule(TRUE, FALSE, "literal", "sl")                \* !sl
NotStar == Rule(TRUE, FALSE, "any", "")                    \* !*

\* The names that end in ".log".
LogNames == {"a.log", "debug.log", "important.log"}

EndsWith(name, suffix) == suffix = ".log" /\ name \in LogNames

GlobMatches(rule, name) ==
    CASE rule.kind = "any" -> TRUE
      [] rule.kind = "suffix" -> EndsWith(name, rule.text)
      [] OTHER -> name = rule.text

\* Gitignore::matched: the last line of the rule file that matches decides;
\* a dirOnly line matches directories only.
Matched(rs, path, is_dir) ==
    LET hit == {i \in 1..Len(rs) :
                    /\ path # <<>>
                    /\ GlobMatches(rs[i], path[Len(path)])
                    /\ (~rs[i].dirOnly \/ is_dir)}
    IN  IF hit = {} THEN "None"
        ELSE LET top == CHOOSE i \in hit : \A j \in hit : j <= i
             IN  IF rs[top].neg THEN "Whitelist" ELSE "Ignore"

\* One rule set applied to the running verdict (the match arms of both loops).
ApplyMatch(m, dir, path, is_dir, ignored) ==
    IF dir \in DOMAIN m.gitignores
    THEN LET v == Matched(m.gitignores[dir], path, is_dir)
         IN  CASE v = "Ignore" -> TRUE
               [] v = "Whitelist" -> FALSE
               [] OTHER -> ignored
    ELSE ignored

\* GitignoreManager::new
NewManager(root) == [gitignores |-> <<>>, root |-> root]

IsRuleFileName(path) == FileName(path) = Some(".gitignore")

\* The loop of is_ignored_with_type: from the parent of the path upwards, up to
\* and including the root of the manager.
RECURSIVE WithTypeLoop(_, _, _, _, _)
WithTypeLoop(m, path, is_dir, ancestor, ignored) ==
    IF ancestor = None THEN ignored
    ELSE LET dir == Unwrap(ancestor)
         IN  IF ~StartsWith(dir, m.root) /\ dir # m.root THEN ignored
             ELSE LET now == ApplyMatch(m, dir, path, is_dir, ignored)
                  IN  IF dir = m.root THEN now
                      ELSE WithTypeLoop(m, path, is_dir, PathParent(dir), now)

\* A resolver without the exemption of the rule file itself.
IsIgnoredWithTypeNoExemption(m, path, is_dir) ==
    WithTypeLoop(m, path, is_dir, PathParent(path), FALSE)

IsIgnoredWithType(m, path, is_dir) ==
    IF IsRuleFileName(path) THEN FALSE
    ELSE WithTypeLoop(m, path, is_dir, PathParent(path), FALSE)

\* The first loop of is_ignored: from the root of the manager downwards, as long
\* as the next directory towards the path has a rule set of its own.
RECURSIVE DownLoop(_, _, _, _, _, _)
DownLoop(f, m, path, is_dir, dir, ignored) ==
    LET now == ApplyMatch(m, dir, path, is_dir, ignored)
    IN  IF StartsWith(path, dir) /\ Len(path) > Len(dir)
        THEN LET next_dir == Append(dir, path[Len(dir) + 1])
             IN  IF next_dir # path /\ Kind(f, next_dir) = "dir"
                      /\ next_dir \in DOMAIN m.gitignores
                 THEN DownLoop(f, m, path, is_dir, next_dir, now)
                 ELSE now
        ELSE now

\* The second loop of is_ignored: from the parent of the path upwards while the
\* directory lies under the root of the manager.
RECURSIVE UpLoop(_, _, _, _, _)
UpLoop(m, path, is_dir, ancestor, ignored) ==
    IF ancestor = None THEN ignored
    ELSE LET dir == Unwrap(ancestor)
         IN  IF ~StartsWith(dir, m.root) THEN ignored
             ELSE UpLoop(m, path, is_dir, PathParent(dir),
                         ApplyMatch(m, dir, path, is_dir, ignored))

IsIgnored(f, m, path) ==
    IF IsRuleFileName(path) THEN FALSE
    ELSE LET is_dir == Kind(f, path) = "dir"
         IN  UpLoop(m, path, is_dir, PathParent(path),
                    DownLoop(f, m, path, is_dir, m.root, FALSE))

(***************************************************************************)
(* walkdir::WalkDir::new(root).follow_links(false)                          *)
(***************************************************************************)
\* The iterator descends into an entry that is a directory, and into the root
\* of the walk also when the root is a symbolic link to a directory (a root
\* link is followed whatever follow_links says).
Descends(f, p, isRoot) ==
    \/ LKind(f, p) = "dir"
    \/ isRoot /\ LKind(f, p) = "symlink" /\ Kind(f, p) = "dir"

\* Every entry the unfiltered iterator yields.
RECURSIVE WalkAll(_, _, _)
WalkAll(f, p, isRoot) ==
    {p} \cup (IF Descends(f, p, isRoot)
              THEN UNION {WalkAll(f, c, FALSE) : c \in ReadDir(f, p)}
              ELSE {})

\* GitignoreManager::discover_gitignores with add_patterns_from_file: one rule
\* set per directory that holds a rule file, read from that file.
DiscoverGitignores(f, rs, root) ==
    LET found == {q \in WalkAll(f, root, TRUE) :
                      IsRuleFileName(q) /\ LCanon(f, q) \in DOMAIN rs}
    IN  [NewManager(root) EXCEPT
            !.gitignores = [d \in {Front(q) : q \in found} |->
                               rs[LCanon(f, Append(d, ".gitignore"))]]]

(***************************************************************************)
(* FileEntry                                                                *)
(***************************************************************************)
\* format!("{}_{}", mtime, size)
Fingerprint(mtime, size) == ToString(mtime) \o "_" \o ToString(size)

\* The entry built from the metadata md of the object at `path`.
EntryOf(path, parent_path, md) ==
    LET size == IF md.kind = "file" THEN Some(md.size) ELSE None
        mtime == Some(md.mtime)
    IN  [path |-> path,
         parent_path |-> parent_path,
         name |-> Unwrap(FileName(path)),
         size |-> size,
         mtime |-> mtime,
         is_dir |-> md.kind = "dir",
         token_count |-> None,
         fingerprint |-> IF IsSome(size) /\ IsSome(mtime)
                         THEN Some(Fingerprint(Unwrap(mtime), Unwrap(size)))
                         ELSE None,
         child_count |-> None]

\* entry.metadata() of a walkdir entry that was not followed: lstat.
DirEntryMetadataOk(f, p) ==
    LCanon(f, p) \in FsPaths /\ f[LCanon(f, p)].kind # "none" /\ f[LCanon(f, p)].ok

\* FileEntry::from_dir_entry: the parent is the parent of the path itself.
FromDirEntry(f, p) == EntryOf(p, PathParent(p), f[LCanon(f, p)])

\* FileEntry::from_path: std::fs::metadata follows symbolic links; the parent
\* is the one the caller passes.
FromPath(f, p, parent_path) == EntryOf(p, parent_path, f[Canon(f, p)])

(***************************************************************************)
(* Traversal of an index run: filter_entry, then the per-entry closure.     *)
(***************************************************************************)
\* The filter_entry closure: FALSE for a symbolic link and for an entry the
\* ignore resolver rejects.  gm is None when ignore filtering is disabled.
IgnoreRejects(f, gm, p) ==
    IsSome(gm) /\ IsIgnoredWithType(Unwrap(gm), p, LKind(f, p) = "dir")

FilterEntry(f, gm, p) == LKind(f, p) # "symlink" /\ ~IgnoreRejects(f, gm, p)

\* A traversal that filters after the walk: every entry of the unfiltered
\* walk is put to the filter.
TraversePostFilter(f, gm, p, isRoot) ==
    LET all == WalkAll(f, p, isRoot)
    IN  [yield |-> {q \in all : FilterEntry(f, gm, q)},
         ignored |-> {q \in all : LKind(f, q) # "symlink" /\ IgnoreRejects(f, gm, q)}]

\* The entries filter_entry passes on ("yield") and those on which the ignore
\* counter is incremented ("ignored").  walkdir skips the content of a rejected
\* entry when the entry's own file type is a directory.
RECURSIVE Traverse(_, _, _, _)
Traverse(f, gm, p, isRoot) ==
    LET pass == FilterEntry(f, gm, p)
        down == Descends(f, p, isRoot) /\ (pass \/ LKind(f, p) # "dir")
        sub == IF down THEN {Traverse(f, gm, c, FALSE) : c \in ReadDir(f, p)} ELSE {}
    IN  [yield |-> (IF pass THEN {p} ELSE {}) \cup UNION {t.yield : t \in sub},
         ignored |-> (IF LKind(f, p) # "symlink" /\ IgnoreRejects(f, gm, p)
                      THEN {p} ELSE {})
                     \cup UNION {t.ignored : t \in sub}]

\* collect_entries / the first pass of parallel_index_folder: the candidates
\* and the three counters.
CollectEntries(f, gm, root) ==
    LET t == Traverse(f, gm, root, TRUE)
        good == {p \in t.yield : DirEntryMetadataOk(f, p)}
    IN  [entries |-> {FromDirEntry(f, p) : p \in good},
         processed_count |-> Cardinality(t.yield),
         ignored_count |-> Cardinality(t.ignored),
         error_count |-> Cardinality(t.yield \ good)]

(***************************************************************************)
(* The files table and its writers.  A table is a set of rows.              *)
(***************************************************************************)
\* An INSERT whose column list lacks the fingerprint.
RowOfNoFingerprint(e) ==
    [path |-> e.path, parent_path |-> e.parent_path, name |-> e.name,
     size |-> e.size, mtime |-> e.mtime, is_dir |-> e.is_dir,
     token_count |-> None, fingerprint |-> None]

\* The row INSERT writes for a candidate (token_count is not in the column
\* list and stays NULL).
RowOf(e) ==
    [path |-> e.path, parent_path |-> e.parent_path, name |-> e.name,
     size |-> e.size, mtime |-> e.mtime, is_dir |-> e.is_dir,
     token_count |-> None, fingerprint |-> e.fingerprint]

\* UPDATE files SET size, mtime, fingerprint, name, parent_path WHERE path = ?
UpdateRow(r, e) ==
    [r EXCEPT !.size = e.size, !.mtime = e.mtime, !.fingerprint = e.fingerprint,
              !.name = e.name, !.parent_path = e.parent_path]

\* A writer without the lookup by path: every candidate is inserted.
UpsertEntryNoLookup(tbl, e) == tbl \cup {RowOf(e)}

\* A writer whose UPDATE has no WHERE clause: every row is refreshed.
UpsertEntryNoWhere(tbl, e) ==
    LET existing == {r \in tbl : r.path = e.path}
    IN  IF existing # {}
        THEN IF (CHOOSE r \in existing : TRUE).fingerprint # e.fingerprint
             THEN {UpdateRow(r, e) : r \in tbl}
             ELSE tbl
        ELSE tbl \cup {RowOf(e)}

\* A writer that makes the children of a directory follow the disk: the rows
\* below the candidate are dropped when the candidate is written.
UpsertEntryDropChildren(tbl, e) ==
    LET kept == {r \in tbl : r.parent_path # Some(e.path)}
    IN  IF \E r \in kept : r.path = e.path THEN kept ELSE kept \cup {RowOf(e)}

\* upsert_entry, and the same statements inline in parallel_index_folder and
\* traverse_and_insert: look the path up; update the row when the stored
\* fingerprint differs from the candidate's; insert when there is no row.
UpsertEntry(tbl, e) ==
    LET existing == {r \in tbl : r.path = e.path}
    IN  IF existing # {}
        THEN IF (CHOOSE r \in existing : TRUE).fingerprint # e.fingerprint
             THEN (tbl \ existing) \cup {UpdateRow(r, e) : r \in existing}
             ELSE tbl
        ELSE tbl \cup {RowOf(e)}

\* The statements of one chunk, in order: for entry in chunk { upsert }.
RECURSIVE UpsertAll(_, _)
UpsertAll(tbl, chunk) ==
    IF chunk = <<>> THEN tbl
    ELSE UpsertAll(UpsertEntry(tbl, Head(chunk)), Tail(chunk))

\* A batch without a transaction: the statements before the failing one stay.
TransactionNoRollback(tbl, chunk, failAt) ==
    IF failAt = 0 THEN UpsertAll(tbl, chunk)
    ELSE UpsertAll(tbl, SubSeq(chunk, 1, failAt - 1))

\* One batch: conn.transaction(), the upserts, tx.commit().  failAt = 0: every
\* statement and the commit succeed.  failAt = j: the j-th upsert fails, or the
\* commit when j = Len(chunk) + 1; `?` returns and the dropped transaction
\* rolls back.
Transaction(tbl, chunk, failAt) ==
    IF failAt = 0 THEN UpsertAll(tbl, chunk) ELSE tbl

\* sort_by_key(components().count()): a stable sort by depth.
MaxDepth == 4

RECURSIVE SortFrom(_, _)
SortFrom(entries, k) ==
    IF k > MaxDepth THEN <<>>
    ELSE SelectSeq(entries, LAMBDA e : ComponentsCount(e.path) = k)
         \o SortFrom(entries, k + 1)

\* The candidates left in the order of their arrival.
SortEntriesAsArrived(entries) == entries

SortEntriesByDepth(entries) == SortFrom(entries, 1)

\* const BATCH_SIZE: usize = 1000.  The model cuts the candidates into chunks
\* of ChunkSize = min(BATCH_SIZE, MaxBatch) so that a run has several batches.
BATCH_SIZE == 1000
ChunkSize == IF BATCH_SIZE < MaxBatch THEN BATCH_SIZE ELSE MaxBatch

\* entries.chunks(BATCH_SIZE): the k-th chunk, k = 1, 2, ...
NumChunks(entries) == (Len(entries) + ChunkSize - 1) \div ChunkSize
Chunk(entries, k) ==
    SubSeq(entries, (k - 1) * ChunkSize + 1,
           IF k * ChunkSize < Len(entries) THEN k * ChunkSize ELSE Len(entries))

\* Every order of the set S.
RECURSIVE Orders(_)
Orders(S) ==
    IF S = {} THEN {<<>>}
    ELSE UNION {{<<x>> \o t : t \in Orders(S \ {x})} : x \in S}

\* Orders in which the parallel bridge may deliver the candidates S: the
\* deepest first, and every order among candidates of equal depth.  A stable
\* sort by depth sees the relative order of equal keys only, so these arrivals
\* produce every sorted list that any arrival can produce.
RECURSIVE ArrivalsFrom(_, _)
ArrivalsFrom(S, k) ==
    IF k > MaxDepth THEN {<<>>}
    ELSE {deep \o same : deep \in ArrivalsFrom(S, k + 1),
                         same \in Orders({e \in S : ComponentsCount(e.path) = k})}

Arrivals(S) == ArrivalsFrom(S, 1)

(***************************************************************************)
(* get_children                                                             *)
(***************************************************************************)
\* (SELECT COUNT(*) FROM files f2 WHERE f2.parent_path = files.path)
\* A count of all rows below the path instead of its direct children.
ChildCountDescendants(tbl, path) ==
    Cardinality({r \in tbl : StartsWith(r.path, path) /\ r.path # path})

ChildCount(tbl, path) == Cardinality({r \in tbl : r.parent_path = Some(path)})

WithChildCount(tbl, r) ==
    [path |-> r.path, parent_path |-> r.parent_path, name |-> r.name,
     size |-> r.size, mtime |-> r.mtime, is_dir |-> r.is_dir,
     token_count |-> r.token_count, fingerprint |-> r.fingerprint,
     child_count |-> Some(ChildCount(tbl, r.path))]

\* A listing that treats only a NULL parent as top level.
GetChildrenNoOrphans(tbl, parent_path) ==
    {WithChildCount(tbl, r) : r \in {r \in tbl : r.parent_path = parent_path}}

\* A listing of everything below the parent, not of its children only.
GetChildrenDescendants(tbl, parent_path) ==
    IF parent_path = None
    THEN {WithChildCount(tbl, r) : r \in
            {r \in tbl : \/ r.parent_path = None
                         \/ ~\E r2 \in tbl : r2.path = Unwrap(r.parent_path)}}
    ELSE {WithChildCount(tbl, r) : r \in
            {r \in tbl : /\ StartsWith(r.path, Unwrap(parent_path))
                         /\ r.path # Unwrap(parent_path)}}

\* The two SELECTs of get_children.  The result is the set of returned entries
\* (rows with equal is_dir and name come in an order SQLite does not fix).
GetChildren(tbl, parent_path) ==
    IF parent_path = None
    THEN {WithChildCount(tbl, r) : r \in
            {r \in tbl : \/ r.parent_path = None
                         \/ /\ r.parent_path # None
                            /\ ~\E r2 \in tbl : r2.path = Unwrap(r.parent_path)}}
    ELSE {WithChildCount(tbl, r) : r \in {r \in tbl : r.parent_path = parent_path}}

(***************************************************************************)
(* The state machine.                                                       *)
(***************************************************************************)
RootRuleSets == {<<>>, <<Star, NotSl>>}
SrcRuleSets == {<<>>, <<NotALog>>}

\* The paths index_folder and traverse_and_insert are called with.
Roots == {Root, Src, SrcLog, Lnk}

\* The files that are rewritten between runs.
Edited == {SrcIgnore, SrcLog}

File(m, s) == [kind |-> "file", mtime |-> m, size |-> s, ok |-> TRUE]
Dir(m) == [kind |-> "dir", mtime |-> m, size |-> 0, ok |-> TRUE]
Symlink(m) == [kind |-> "symlink", mtime |-> m, size |-> 0, ok |-> TRUE]

\* What a command returned: cmd names the command, ok tells Ok from Err, value
\* is the payload of Ok.
Returned(cmd, ok, value) == [cmd |-> cmd, ok |-> ok, value |-> value]
NoResult == Returned("none", TRUE, 0)

NoRun ==
    [root |-> <<>>, entries |-> <<>>, batch |-> 1,
     processed_count |-> 0, ignored_count |-> 0, error_count |-> 0,
     total_inserted |-> 0, final_progress |-> <<>>,
     applied |-> 0, snapshot |-> None]

\* The workers of the parallel bridge.
Workers == {1, 2}

\* The throttle when a traversal starts: last_progress_time is the time of
\* the start, no worker has taken an entry.
NoProgress ==
    [clock |-> 0, last_time |-> 0, visited |-> 0, grants |-> <<>>,
     worker |-> [w \in Workers |-> [pc |-> "ready", now |-> 0, emit |-> FALSE]]]

\* The history table of a fresh store, at time zero.
NoHistory == [rows |-> {}, now |-> 0, saves |-> 0]

\* The settings table of a fresh store, narrowed to the two keys of the
\* sensitive-data commands: neither key has a row.
KEY_ENABLED == "sensitive_data_enabled"
KEY_PREVENT == "sensitive_prevent_selection"
NoSettings == [k \in {KEY_ENABLED, KEY_PREVENT} |-> None]

\* The text cache TextCache::new builds over an empty directory.
NoCache == [index |-> {}, disk |-> {}, current_size_bytes |-> 0, now |-> 0]

\* The tree the runs start from: /root with a rule file, the directory
\* /root/src with a rule file and a log file, and two links to /root/src.
InitFs ==
    [p \in FsPaths |->
        CASE p \in {Root, Src} -> Dir(1)
          [] p \in {Sl, Lnk} -> Symlink(1)
          [] OTHER -> File(1, 1)]

Init ==
    /\ fs = InitFs
    /\ rules \in {[p \in {RootIgnore, SrcIgnore} |-> IF p = RootIgnore THEN a ELSE b]
                    : a \in RootRuleSets, b \in SrcRuleSets}
    /\ files = {}
    /\ respect = TRUE
    /\ pc = "idle"
    /\ run = NoRun
    /\ pre = {}
    /\ last = None
    /\ result = NoResult
    /\ ops = 0
    /\ progress = NoProgress
    /\ history = NoHistory
    /\ cache = NoCache
    /\ settings = NoSettings

\* A store on which lock() never waits.
StoreLockFreeAlways == TRUE

\* A run that takes the guard of the store before it walks the tree.
HoldsStoreFromStart(phase) == phase # "idle"

\* The phases in which an index run holds the guard of the store: from
\* db.lock() after the first pass until parallel_index_folder returns.
HoldsStore(phase) == phase = "persist"

\* db.lock() returns: no index run holds the guard.
StoreLockFree == ~HoldsStore(pc)

Idle == pc = "idle" /\ ops < MaxOps

\* What an index run saw: compared between two runs.
Seen(root) == [root |-> root, fs |-> fs, rules |-> rules, respect |-> respect]

----
\* The file system changes between commands.

\* A file is rewritten in place: its mtime changes.
TouchMtime(p, m) ==
    /\ Idle
    /\ fs[p].kind = "file"
    /\ m # fs[p].mtime
    /\ fs' = [fs EXCEPT ![p].mtime = m]
    /\ ops' = ops + 1
    /\ UNCHANGED <<settings, history, cache, progress, rules, files, respect, pc, run, pre, last, result>>

\* A file grows or shrinks with its mtime kept (an edit within one second).
Resize(p, s) ==
    /\ Idle
    /\ fs[p].kind = "file"
    /\ s # fs[p].size
    /\ fs' = [fs EXCEPT ![p].size = s]
    /\ ops' = ops + 1
    /\ UNCHANGED <<settings, history, cache, progress, rules, files, respect, pc, run, pre, last, result>>

\* A file is deleted.
Remove(p) ==
    /\ Idle
    /\ fs[p].kind = "file"
    /\ fs' = [fs EXCEPT ![p].kind = "none"]
    /\ ops' = ops + 1
    /\ UNCHANGED <<settings, history, cache, progress, rules, files, respect, pc, run, pre, last, result>>

\* The metadata of a file becomes unreadable, or readable again.
SetReadable(p, b) ==
    /\ Idle
    /\ fs[p].kind = "file"
    /\ fs[p].ok # b
    /\ fs' = [fs EXCEPT ![p].ok = b]
    /\ ops' = ops + 1
    /\ UNCHANGED <<settings, history, cache, progress, rules, files, respect, pc, run, pre, last, result>>

\* A rule file gets another content.
WriteRules(p, rs) ==
    /\ Idle
    /\ fs[p].kind = "file"
    /\ rules[p] # rs
    /\ rules' = [rules EXCEPT ![p] = rs]
    /\ ops' = ops + 1
    /\ UNCHANGED <<settings, history, cache, progress, fs, files, respect, pc, run, pre, last, result>>

----
\* save_setting("respect_gitignore", b)
SaveRespectGitignore(b) ==
    /\ Idle
    /\ respect # b
    /\ respect' = b
    /\ ops' = ops + 1
    /\ UNCHANGED <<settings, history, cache, progress, fs, rules, files, pc, run, pre, last, result>>

\* The tables init_database creates.
SchemaTables == {"files", "history", "settings", "pending_updates"}

\* The ignore resolver of a run: built and loaded when respect_gitignore is
\* set, absent otherwise.
Manager(f, rs, resp, root) ==
    IF resp THEN Some(DiscoverGitignores(f, rs, root)) ELSE None

\* index_folder with a path that does not exist: an error before anything else.
IndexFolderMissing(root) ==
    /\ Idle
    /\ ~Exists(fs, root)
    /\ result' = Returned("index_folder", FALSE, "Path does not exist")
    /\ ops' = ops + 1
    /\ UNCHANGED <<settings, history, cache, progress, fs, rules, files, respect, pc, run, pre, last>>

\* index_folder / parallel_index_folder up to the lock of the store: settings,
\* rule-file discovery, traversal, the sort by depth.
IndexFolder(root) ==
    /\ Idle
    /\ Exists(fs, root)
    /\ LET out == CollectEntries(fs, Manager(fs, rules, respect, root), root)
       IN  \E arrival \in Arrivals(out.entries) :
              run' = [root |-> root,
                      entries |-> SortEntriesByDepth(arrival),
                      batch |-> 1,
                      processed_count |-> out.processed_count,
                      ignored_count |-> out.ignored_count,
                      error_count |-> out.error_count,
                      total_inserted |-> 0,
                      final_progress |-> <<>>,
                      applied |-> 0,
                      snapshot |-> None]
    /\ pre' = files
    /\ pc' = "persist"
    /\ result' = NoResult
    /\ ops' = ops + 1
    /\ UNCHANGED <<settings, history, cache, progress, fs, rules, files, respect, last>>

\* One batch of the second pass commits.
PersistBatch ==
    /\ pc = "persist"
    /\ run.batch <= NumChunks(run.entries)
    /\ LET chunk == Chunk(run.entries, run.batch)
       IN  /\ files' = Transaction(files, chunk, 0)
           /\ run' = [run EXCEPT !.batch = @ + 1,
                                 !.total_inserted = @ + Len(chunk)]
    /\ UNCHANGED <<settings, history, cache, progress, fs, rules, respect, pc, pre, last, result, ops>>

\* A statement of the batch or its commit fails: the run returns the error.
PersistBatchFails ==
    /\ pc = "persist"
    /\ run.batch <= NumChunks(run.entries)
    /\ LET chunk == Chunk(run.entries, run.batch)
       IN  \E failAt \in 1..(Len(chunk) + 1) :
              files' = Transaction(files, chunk, failAt)
    /\ pc' = "idle"
    /\ last' = None
    /\ result' = Returned("index_folder", FALSE, "Failed to index folder")
    /\ UNCHANGED <<settings, history, cache, progress, fs, rules, respect, run, pre, ops>>

\* The IndexProgress sent after the last batch: the number of collected
\* entries twice, "Complete", the error counter.
FinalProgress(r) ==
    [processed |-> Len(r.entries), total_estimate |-> Len(r.entries),
     current_path |-> "Complete", errors |-> r.error_count]

\* After the last batch: the final progress event, Ok(total_inserted) from
\* parallel_index_folder, then reprocess_sensitive_marks_if_enabled, whose
\* DELETE FROM sensitive_paths needs that table.
IndexFolderReturns ==
    /\ pc = "persist"
    /\ run.batch > NumChunks(run.entries)
    /\ pc' = "idle"
    /\ last' = Some(Seen(run.root))
    /\ result' = IF "sensitive_paths" \in SchemaTables
                  THEN Returned("index_folder", TRUE, run.total_inserted)
                  ELSE Returned("index_folder", FALSE,
                                "Failed to refresh sensitive marks after indexing")
    /\ run' = [run EXCEPT !.final_progress = Append(@, FinalProgress(run))]
    /\ UNCHANGED <<settings, history, cache, progress, fs, rules, files, respect, pre, ops>>

\* clear_index: DELETE FROM files, then DELETE FROM sensitive_paths, each in
\* its own implicit transaction.
ClearIndex ==
    /\ Idle
    /\ files' = {}
    /\ last' = None
    /\ result' = IF "sensitive_paths" \in SchemaTables
                  THEN Returned("clear_index", TRUE, 0)
                  ELSE Returned("clear_index", FALSE, "Failed to clear sensitive marks")
    /\ ops' = ops + 1
    /\ UNCHANGED <<settings, history, cache, progress, fs, rules, respect, pc, run, pre>>

Next ==
    \/ \E p \in Edited, m \in Mtimes : TouchMtime(p, m)
    \/ \E p \in Edited, s \in Sizes : Resize(p, s)
    \/ Remove(SrcLog)
    \/ \E b \in BOOLEAN : SetReadable(SrcLog, b)
    \/ \E rs \in RootRuleSets : WriteRules(RootIgnore, rs)
    \/ \E rs \in SrcRuleSets : WriteRules(SrcIgnore, rs)
    \/ \E b \in BOOLEAN : SaveRespectGitignore(b)
    \/ \E root \in Roots : IndexFolderMissing(root)
    \/ \E root \in Roots : IndexFolder(root)
    \/ PersistBatch
    \/ PersistBatchFails
    \/ IndexFolderReturns
    \/ ClearIndex

Spec == Init /\ [][Next]_vars

(***************************************************************************)
(* Properties of the index (specification Spec).                            *)
(***************************************************************************)
HasRow(tbl, p) == \E r \in tbl : r.path = p

\* Every batch of the run in progress has been committed.
AllCommitted == pc = "persist" /\ run.batch > NumChunks(run.entries)

\* The run in progress follows a successful run of the same root, and nothing
\* the traversal reads has changed since.
RepeatedRun == pc = "persist" /\ last = Some(Seen(run.root))

\* C1: the files table never holds two rows with the same path, whatever index
\* runs, clear_index calls and file-system changes came before.
C1_PathUnique == \A r1, r2 \in files : r1.path = r2.path => r1 = r2

\* C1 witness: a run has updated, in place, the row of a path that was indexed
\* before with another fingerprint.
C1_Witness ==
    /\ AllCommitted
    /\ \E r \in files, r0 \in pre : r.path = r0.path /\ r.fingerprint # r0.fingerprint

\* C2: a run that repeats a successful run of the same root over an unchanged
\* file system leaves the table as it found it, after each of its batches.
C2_Idempotent == RepeatedRun => files = pre

\* C2 witness: such a repeated run of a subtree with a directory and files has
\* committed all its batches.
C2_Witness ==
    /\ RepeatedRun
    /\ AllCommitted
    /\ Len(run.entries) >= 3
    /\ \A i \in 1..Len(run.entries) : HasRow(files, run.entries[i].path)

\* The file system differs from what the last successful run of the same root
\* saw in the size or the mtime of the one file p, and in nothing else.
OnlyFileChanged(p) ==
    /\ pc = "persist"
    /\ last # None
    /\ LET l == Unwrap(last)
       IN  /\ l.root = run.root
           /\ l.rules = rules
           /\ l.respect = respect
           /\ {q \in DOMAIN fs : fs[q] # l.fs[q]} = {p}
           /\ fs[p].kind = "file" /\ l.fs[p].kind = "file"
           /\ fs[p].ok /\ l.fs[p].ok

\* The paths under which the run in progress collected the file p.
EntryPathsOf(p) ==
    {run.entries[i].path : i \in {i \in 1..Len(run.entries) :
                                    LCanon(fs, run.entries[i].path) = p}}

\* C3: when one file of the subtree changed its size or mtime since the last
\* run, the finished run has set that file's row to the new size, mtime and
\* fingerprint, and every other row is the row it was before the run.
C3_FingerprintSensitivity ==
    \A p \in FsPaths :
        OnlyFileChanged(p) /\ AllCommitted =>
            /\ \A q \in EntryPathsOf(p) :
                  \E r \in files :
                      /\ r.path = q
                      /\ r.size = Some(fs[p].size)
                      /\ r.mtime = Some(fs[p].mtime)
                      /\ r.fingerprint = Some(Fingerprint(fs[p].mtime, fs[p].size))
                      /\ r \notin pre
            /\ \A r \in files : r.path \notin EntryPathsOf(p) => r \in pre
            /\ \A r \in pre : r.path \notin EntryPathsOf(p) => r \in files
            /\ Cardinality(files) = Cardinality(pre)

\* C3 witness: a finished run has collected the one changed file, next to a
\* sibling that did not change.
C3_Witness ==
    /\ OnlyFileChanged(SrcLog)
    /\ AllCommitted
    /\ EntryPathsOf(SrcLog) # {}
    /\ HasRow(files, SrcIgnore)

TopLevel(tbl) == {c.path : c \in GetChildren(tbl, None)}
ChildrenOf(tbl, p) == {c.path : c \in GetChildren(tbl, Some(p))}

\* C4: /root/src is listed at top level as long as /root has no row, and under
\* /root, no longer at top level, once /root has one; a successful run of a
\* root leaves a row for that root; no listing names a path twice.
C4_OrphanResolution ==
    /\ HasRow(files, Src) /\ ~HasRow(files, Root) => Src \in TopLevel(files)
    /\ HasRow(files, Src) /\ HasRow(files, Root) =>
          Src \notin TopLevel(files) /\ Src \in ChildrenOf(files, Root)
    /\ \A root \in {Root, Src} :
          pc = "idle" /\ last # None /\ Unwrap(last).root = root => HasRow(files, root)
    /\ \A parent \in {None, Some(Root), Some(Src)} :
          \A c1, c2 \in GetChildren(files, parent) : c1.path = c2.path => c1 = c2

\* C4 witness: /root/src was indexed first and listed at top level; the run of
\* /root that followed has returned, and /root/src is listed under /root.
C4_Witness ==
    /\ pc = "idle"
    /\ last # None /\ Unwrap(last).root = Root
    /\ HasRow(pre, Src) /\ ~HasRow(pre, Root) /\ Src \in TopLevel(pre)
    /\ HasRow(files, Root)
    /\ Src \in ChildrenOf(files, Root) /\ Src \notin TopLevel(files)

\* Some component of the path, the last one included, is a symbolic link.
ThroughSymlink(f, p) == \E k \in 1..Len(p) : LKind(f, SubSeq(p, 1, k)) = "symlink"

\* C8: no symbolic link, and nothing reached only through a symbolic link to
\* a directory, is among the candidates of an index run or in a row of the
\* index, with ignore filtering on or off and whatever the rule files say.
C8_NoSymlinkIndexed ==
    /\ \A i \in 1..Len(run.entries) : ~ThroughSymlink(fs, run.entries[i].path)
    /\ \A r \in files : ~ThroughSymlink(fs, r.path)

\* The walk of the run in progress, read off the tree without the iterator:
\* the directories the resolver rejects, and the entries below none of the
\* filtered directories.
RunManager == Manager(fs, rules, respect, run.root)

RunWalk == WalkAll(fs, run.root, TRUE)

RejectedDirs ==
    {d \in RunWalk : LKind(fs, d) = "dir" /\ IgnoreRejects(fs, RunManager, d)}

Below(p, d) == StartsWith(p, d) /\ p # d

Visited == {p \in RunWalk : ~\E d \in RejectedDirs : Below(p, d)}

\* C9: a directory the resolver rejects during the traversal is pruned: the
\* directory and its descendants are not among the candidates, no descendant
\* is counted as processed, and the ignored counter counts the directory once
\* and none of its descendants, also when a rule set below the directory
\* un-ignores a descendant.
C9_Pruning ==
    pc = "persist" =>
        /\ \A d \in RejectedDirs : \A i \in 1..Len(run.entries) :
              ~StartsWith(run.entries[i].path, d)
        /\ run.processed_count =
              Cardinality({p \in Visited : FilterEntry(fs, RunManager, p)})
        /\ run.ignored_count =
              Cardinality({p \in Visited :
                              LKind(fs, p) # "symlink" /\ IgnoreRejects(fs, RunManager, p)})

\* C9 witness: a run over /root whose rule file rejects /root/src while the
\* rule file of /root/src un-ignores a.log; the ignored counter is one.
C9_Witness ==
    /\ pc = "persist"
    /\ run.root = Root
    /\ Src \in RejectedDirs
    /\ rules[SrcIgnore] = <<NotALog>>
    /\ LKind(fs, SrcLog) = "file"
    /\ run.ignored_count = 1

\* A run ended with the failure of a batch.
BatchFailed ==
    /\ pc = "idle"
    /\ result.cmd = "index_folder"
    /\ result.value = "Failed to index folder"

\* The candidates of the batches committed before the failing batch run.batch.
CommittedCandidates ==
    {run.entries[i] : i \in
        {i \in 1..Len(run.entries) : i <= (run.batch - 1) * ChunkSize}}

\* C10: after batch k of a run fails, the changes of batches 1..k-1 are in the
\* index, no change of batch k or of a later batch is, and every row that was
\* not a candidate of batches 1..k-1 has its pre-run values.
C10_BatchAtomicity ==
    BatchFailed =>
        /\ \A e \in CommittedCandidates :
              IF HasRow(pre, e.path)
              THEN \A r \in pre : r.path = e.path =>
                      IF r.fingerprint # e.fingerprint
                      THEN UpdateRow(r, e) \in files
                      ELSE r \in files
              ELSE RowOf(e) \in files
        /\ \A r \in pre :
              (~\E e \in CommittedCandidates : e.path = r.path) => r \in files
        /\ \A r \in files :
              \/ HasRow(pre, r.path)
              \/ \E e \in CommittedCandidates : e.path = r.path
        /\ \A r1, r2 \in files : r1.path = r2.path => r1 = r2

\* C10 witness: the second batch of a run failed after the first one changed
\* the index; the failing batch holds two candidates, the first of which
\* would have added a row, and the index held a row before the run that is
\* not a candidate of the first batch.
C10_Witness ==
    /\ BatchFailed
    /\ run.batch = 2
    /\ files # pre
    /\ LET chunk == Chunk(run.entries, run.batch)
       IN  Len(chunk) = 2 /\ ~HasRow(files, chunk[1].path)
    /\ \E r \in pre : ~\E e \in CommittedCandidates : e.path = r.path

(***************************************************************************)
(* get_children as a command: specification SpecListing.  The table is any  *)
(* set of rows, one per path at most, that the writers can leave behind: a   *)
(* row either carries its true parent (from_dir_entry) or a NULL parent (the *)
(* root of a traverse_and_insert call).                                      *)
(***************************************************************************)
ListedPaths == {Root, Src, SrcIgnore, SrcLog}

RowVariants(p) ==
    {RowOf(FromDirEntry(InitFs, p)), RowOf(FromPath(InitFs, p, None))}

Tables ==
    {UNION {pick[p] : p \in ListedPaths} :
        pick \in [ListedPaths -> {{}} \cup UNION {{{r} : r \in RowVariants(p)} : p \in ListedPaths}]}

ValidTable(tbl) ==
    /\ \A r1, r2 \in tbl : r1.path = r2.path => r1 = r2
    /\ \A r \in tbl : r \in RowVariants(r.path)

ListingArgs == {None, Some(<<>>), Some(Root), Some(Src), Some(SrcLog)}

InitListing ==
    /\ fs = InitFs
    /\ rules = [p \in {RootIgnore, SrcIgnore} |-> <<>>]
    /\ files \in {tbl \in Tables : ValidTable(tbl)}
    /\ respect = TRUE
    /\ pc = "idle"
    /\ run = NoRun
    /\ pre = {}
    /\ last = None
    /\ result = NoResult
    /\ ops = 0
    /\ progress = NoProgress
    /\ history = NoHistory
    /\ cache = NoCache
    /\ settings = NoSettings

\* get_children(parent_path): db.lock(), the SELECT.
GetChildrenCall(parent_path) ==
    /\ StoreLockFree
    /\ result' = Returned("get_children", TRUE,
                          [parent_path |-> parent_path,
                           entries |-> GetChildren(files, parent_path)])
    /\ UNCHANGED <<settings, history, cache, progress, fs, rules, files, respect, pc, run, pre, last, ops>>

NextListing == \E parent_path \in ListingArgs : GetChildrenCall(parent_path)

SpecListing == InitListing /\ [][NextListing]_vars

\* The stored columns of a listed entry are those of its row.
SameColumns(c, r) ==
    /\ c.path = r.path /\ c.parent_path = r.parent_path /\ c.name = r.name
    /\ c.size = r.size /\ c.mtime = r.mtime /\ c.is_dir = r.is_dir
    /\ c.token_count = r.token_count /\ c.fingerprint = r.fingerprint

\* C5: get_children(None) returns exactly the rows with a NULL parent_path or
\* a parent_path that is the path of no row; get_children(Some(p)) exactly the
\* rows with parent_path p; each entry's child_count is the number of rows
\* whose parent_path is the entry's path.
C5_GetChildrenExact ==
    result.cmd = "get_children" =>
        LET arg == result.value.parent_path
            got == result.value.entries
        IN  /\ {c.path : c \in got} =
                 IF arg = None
                 THEN {r.path : r \in {r \in files :
                          \/ r.parent_path = None
                          \/ ~HasRow(files, Unwrap(r.parent_path))}}
                 ELSE {r.path : r \in {r \in files : r.parent_path = arg}}
            /\ \A c \in got :
                  /\ \E r \in files : SameColumns(c, r)
                  /\ c.child_count =
                        Some(Cardinality({r \in files : r.parent_path = Some(c.path)}))

\* C5 witness: a top-level listing that returns a row with a NULL parent, an
\* orphan, and an entry with children, and leaves a row out.
C5_Witness ==
    /\ result.cmd = "get_children"
    /\ result.value.parent_path = None
    /\ \E c \in result.value.entries : c.parent_path = None
    /\ \E c \in result.value.entries :
          c.parent_path # None /\ ~HasRow(files, Unwrap(c.parent_path))
    /\ \E c \in result.value.entries : c.child_count # Some(0)
    /\ \E r \in files : r.path \notin {c.path : c \in result.value.entries}

(***************************************************************************)
(* The ignore resolver as an object: specification SpecIgnore.  A manager    *)
(* is created for /root, loads the rule files of the tree, and is asked      *)
(* about a path.                                                            *)
(***************************************************************************)
IgnoreRootRules ==
    {<<>>, <<StarLog>>, <<Star>>, <<StarLog, NotImportantLog>>, <<NotStar>>, <<SrcDir>>}
IgnoreSrcRules == {<<>>, <<NotImportantLog>>, <<StarLog>>, <<Star>>}

RootDebugLog == <<"root", "debug.log">>
SrcDebugLog == <<"root", "src", "debug.log">>
SrcImportantLog == <<"root", "src", "important.log">>

QueryPaths ==
    {RootDebugLog, SrcDebugLog, SrcImportantLog, RootIgnore, SrcIgnore, Src, SrcLog}

InitIgnore ==
    /\ fs = InitFs
    /\ rules \in {[p \in {RootIgnore, SrcIgnore} |-> IF p = RootIgnore THEN a ELSE b]
                    : a \in IgnoreRootRules, b \in IgnoreSrcRules}
    /\ files = {}
    /\ respect = TRUE
    /\ pc = "idle"
    /\ run = NoRun
    /\ pre = {}
    /\ last = None
    /\ result = NoResult
    /\ ops = 0
    /\ progress = NoProgress
    /\ history = NoHistory
    /\ cache = NoCache
    /\ settings = NoSettings

\* GitignoreManager::new(root), discover_gitignores(root), is_ignored(path)
IsIgnoredCall(path) ==
    /\ pc = "idle"
    /\ LET m == DiscoverGitignores(fs, rules, Root)
       IN  result' = Returned("is_ignored", TRUE,
                              [path |-> path,
                               is_dir |-> Kind(fs, path) = "dir",
                               ignored |-> IsIgnored(fs, m, path)])
    /\ UNCHANGED <<settings, history, cache, progress, fs, rules, files, respect, pc, run, pre, last, ops>>

\* GitignoreManager::new(root), discover_gitignores(root),
\* is_ignored_with_type(path, is_dir)
IsIgnoredWithTypeCall(path, is_dir) ==
    /\ pc = "idle"
    /\ LET m == DiscoverGitignores(fs, rules, Root)
       IN  result' = Returned("is_ignored_with_type", TRUE,
                              [path |-> path,
                               is_dir |-> is_dir,
                               ignored |-> IsIgnoredWithType(m, path, is_dir)])
    /\ UNCHANGED <<settings, history, cache, progress, fs, rules, files, respect, pc, run, pre, last, ops>>

NextIgnore ==
    \/ \E path \in QueryPaths : IsIgnoredCall(path)
    \/ \E path \in QueryPaths, is_dir \in BOOLEAN : IsIgnoredWithTypeCall(path, is_dir)

SpecIgnore == InitIgnore /\ [][NextIgnore]_vars

IgnoreAnswer == result.cmd \in {"is_ignored", "is_ignored_with_type"}

\* C6: when the rule set of /root and the rule set of /root/src both match a
\* path below /root/src with opposite verdicts, the verdict of /root/src, the
\* closer one, is the answer of is_ignored and of is_ignored_with_type.
C6_CloserRuleSetWins ==
    IgnoreAnswer =>
        LET q == result.value
            far == Matched(rules[RootIgnore], q.path, q.is_dir)
            near == Matched(rules[SrcIgnore], q.path, q.is_dir)
        IN  /\ StartsWith(q.path, Src) /\ q.path # Src
            /\ ~IsRuleFileName(q.path)
            /\ far # "None" /\ near # "None" /\ far # near
            => q.ignored = (near = "Ignore")

\* C7: whatever the rule files hold, a path whose final component is
\* .gitignore is not ignored, by is_ignored and by is_ignored_with_type.
C7_RuleFileNeverIgnored ==
    IgnoreAnswer /\ IsRuleFileName(result.value.path) => ~result.value.ignored

\* C7 witness: the resolver was asked about a rule file below a directory
\* whose rule set is the single line "*".
C7_Witness ==
    /\ IgnoreAnswer
    /\ result.value.path = SrcIgnore
    /\ rules[RootIgnore] = <<Star>>
    /\ Matched(rules[RootIgnore], SrcIgnore, FALSE) = "Ignore"

(***************************************************************************)
(* Deletion, clear_index and the shape of the rows (specification Spec).    *)
(***************************************************************************)
PathsOf(tbl) == {r.path : r \in tbl}

\* C11: no step other than clear_index removes a path from the index: index
\* runs only add rows or rewrite rows in place, also for a file that was
\* removed from disk or that an ignore rule newly matches.
C11_NoImplicitDeletion == [][ClearIndex \/ PathsOf(files) \subseteq PathsOf(files')]_vars

\* C11 witness: /root/src/a.log had a row, was removed from disk, and a run
\* over its parent /root/src has committed all its batches.
C11_Witness ==
    /\ AllCommitted
    /\ run.root = Src
    /\ HasRow(pre, SrcLog)
    /\ LKind(fs, SrcLog) = "none"
    /\ HasRow(files, Src)

\* C12: clear_index on a store that init_database set up returns success and
\* leaves no persisted entry: the files table is empty and the top-level
\* listing is empty, whatever index runs came before.
C12_ClearIndexSucceeds ==
    result.cmd = "clear_index" =>
        /\ result.ok
        /\ files = {}
        /\ GetChildren(files, None) = {}

(***************************************************************************)
(* A file replaced by a directory between runs: specification SpecReplace.  *)
(* /root/src starts as a file; later it is a directory with two files.      *)
(***************************************************************************)
InitReplace ==
    /\ fs = [InitFs EXCEPT ![Src] = File(1, 1),
                           ![SrcIgnore].kind = "none",
                           ![SrcLog].kind = "none"]
    /\ rules \in {[p \in {RootIgnore, SrcIgnore} |-> IF p = RootIgnore THEN a ELSE b]
                    : a \in RootRuleSets, b \in SrcRuleSets}
    /\ files = {}
    /\ respect = TRUE
    /\ pc = "idle"
    /\ run = NoRun
    /\ pre = {}
    /\ last = None
    /\ result = NoResult
    /\ ops = 0
    /\ progress = NoProgress
    /\ history = NoHistory
    /\ cache = NoCache
    /\ settings = NoSettings

\* The file p is deleted and a directory with a rule file and a log file is
\* created under its name.
ReplaceByDirectory(p, m) ==
    /\ Idle
    /\ fs[p].kind = "file"
    /\ fs' = [q \in FsPaths |->
                IF q = p THEN Dir(m)
                ELSE IF q # <<>> /\ Front(q) = p THEN File(m, 1)
                ELSE fs[q]]
    /\ ops' = ops + 1
    /\ UNCHANGED <<settings, history, cache, progress, rules, files, respect, pc, run, pre, last, result>>

NextReplace ==
    \/ \E m \in Mtimes : ReplaceByDirectory(Src, m)
    \/ \E m \in Mtimes : TouchMtime(Src, m)
    \/ \E root \in {Root, Src} : IndexFolder(root)
    \/ PersistBatch
    \/ PersistBatchFails
    \/ IndexFolderReturns

SpecReplace == InitReplace /\ [][NextReplace]_vars

\* C13: a row whose path is the parent_path of another row is the row of a
\* directory, also after a path indexed as a file became a directory with
\* children and was indexed again.
C13_ParentIsDirectory ==
    \A c \in files, p \in files : c.parent_path = Some(p.path) => p.is_dir

(***************************************************************************)
(* traverse_and_insert next to index runs: specification SpecTraverse.      *)
(***************************************************************************)
\* std::fs::metadata in FileEntry::from_path succeeds: the path, with its
\* symbolic links followed, names an object whose metadata can be read.
FromPathOk(f, p) ==
    /\ p # <<>>
    /\ Canon(f, p) \in FsPaths
    /\ f[Canon(f, p)].kind # "none"
    /\ f[Canon(f, p)].ok

\* traverse_and_insert(conn, path, parent_path): the table afterwards.  The
\* entry is written, then the children of a directory are visited with the
\* entry's path as their parent; a child that fails is logged and skipped.
RECURSIVE TraverseAndInsertAll(_, _, _, _)
RECURSIVE TraverseAndInsert(_, _, _, _)
TraverseAndInsert(f, tbl, path, parent_path) ==
    IF ~FromPathOk(f, path) THEN tbl
    ELSE LET entry == FromPath(f, path, parent_path)
             wrote == UpsertEntry(tbl, entry)
         IN  IF entry.is_dir
             THEN TraverseAndInsertAll(f, wrote, ReadDir(f, path), Some(path))
             ELSE wrote

TraverseAndInsertAll(f, tbl, children, parent_path) ==
    IF children = {} THEN tbl
    ELSE LET c == CHOOSE c \in children : TRUE
         IN  TraverseAndInsertAll(f, TraverseAndInsert(f, tbl, c, parent_path),
                                  children \ {c}, parent_path)

\* The entries traverse_and_insert counts: the path and everything below it
\* whose metadata can be read.
RECURSIVE TraversedPaths(_, _)
TraversedPaths(f, path) ==
    IF ~FromPathOk(f, path) THEN {}
    ELSE {path} \cup
         (IF Kind(f, path) = "dir"
          THEN UNION {TraversedPaths(f, c) : c \in ReadDir(f, path)}
          ELSE {})

\* traverse_and_insert(conn, root, None), as the callers in the repository
\* call it.
TraverseAndInsertCall(root) ==
    /\ Idle
    /\ files' = TraverseAndInsert(fs, files, root, None)
    /\ result' = IF FromPathOk(fs, root)
                  THEN Returned("traverse_and_insert", TRUE,
                                Cardinality(TraversedPaths(fs, root)))
                  ELSE Returned("traverse_and_insert", FALSE, "metadata")
    /\ last' = None
    /\ ops' = ops + 1
    /\ UNCHANGED <<settings, history, cache, progress, fs, rules, respect, pc, run, pre>>

NextTraverse ==
    \/ \E root \in {Root, Src} : TraverseAndInsertCall(root)
    \/ \E b \in BOOLEAN : SetReadable(SrcLog, b)
    \/ \E root \in {Root, Src} : IndexFolder(root)
    \/ PersistBatch
    \/ PersistBatchFails
    \/ IndexFolderReturns

SpecTraverse == Init /\ [][NextTraverse]_vars

\* C14: once a run has committed all its batches, the row of every candidate
\* carries the candidate's name and parent_path, whether or not the row was
\* there before with the candidate's fingerprint.
C14_NameParentRefreshed ==
    AllCommitted =>
        \A i \in 1..Len(run.entries) :
            \E r \in files :
                /\ r.path = run.entries[i].path
                /\ r.name = run.entries[i].name
                /\ r.parent_path = run.entries[i].parent_path

(***************************************************************************)
(* Progress notifications.                                                  *)
(***************************************************************************)
\* A run was started and is over.
RunOver == pc = "idle" /\ run.root # <<>>

\* C15: every index run whose root exists has sent, by the time it is over,
\* exactly one final progress notification, with processed and
\* total_estimate equal to the number of collected entries and errors equal
\* to the error counter, whatever the persistence phase did.
C15_FinalNotification ==
    RunOver => run.final_progress = <<FinalProgress(run)>>

(***************************************************************************)
(* The progress throttle: specification SpecThrottle.  The workers of the   *)
(* parallel bridge take the entries of the walk; each passes the locked time *)
(* check once per entry.  Time is in milliseconds.                           *)
(***************************************************************************)
\* Duration::from_millis(100)
THROTTLE_MS == 100

\* The clock advances in steps of TickMs up to MaxClock; the walk has
\* MaxVisits entries.
TickMs == 50
MaxClock == 300
MaxVisits == 4

\* now.duration_since(earlier): zero when earlier is later than now.
DurationSince(now, earlier) == IF now > earlier THEN now - earlier ELSE 0

\* A time check without the mutex.
LockFreeAlways(p) == TRUE

\* last_progress_time.lock() returns when no worker holds the mutex.
LockFree(p) == \A w \in Workers : p.worker[w].pc = "ready"

InitThrottle ==
    /\ fs = InitFs
    /\ rules = [p \in {RootIgnore, SrcIgnore} |-> <<>>]
    /\ files = {}
    /\ respect = TRUE
    /\ pc = "idle"
    /\ run = NoRun
    /\ pre = {}
    /\ last = None
    /\ result = NoResult
    /\ ops = 0
    /\ progress = NoProgress
    /\ history = NoHistory
    /\ cache = NoCache
    /\ settings = NoSettings

ThrottleStep(p) ==
    /\ progress' = p
    /\ UNCHANGED <<settings, history, cache, fs, rules, files, respect, pc, run, pre, last, result, ops>>

\* Time passes.
Tick ==
    /\ progress.clock + TickMs <= MaxClock
    /\ ThrottleStep([progress EXCEPT !.clock = @ + TickMs])

\* A worker takes the next entry (processed_count.fetch_add) and gets the
\* mutex.
Lock(w) ==
    /\ progress.worker[w].pc = "ready"
    /\ progress.visited < MaxVisits
    /\ LockFree(progress)
    /\ ThrottleStep([progress EXCEPT !.visited = @ + 1,
                                     !.worker[w].pc = "locked"])

\* let now = Instant::now()
ReadNow(w) ==
    /\ progress.worker[w].pc = "locked"
    /\ ThrottleStep([progress EXCEPT !.worker[w].pc = "read",
                                     !.worker[w].now = progress.clock])

\* now.duration_since(*last_time) > Duration::from_millis(100)
Compare(w) ==
    /\ progress.worker[w].pc = "read"
    /\ ThrottleStep([progress EXCEPT
          !.worker[w].pc = "compared",
          !.worker[w].emit =
              DurationSince(progress.worker[w].now, progress.last_time) > THROTTLE_MS])

\* *last_time = now when the check passed; the guard is dropped; should_emit
\* is the outcome of the check.
Unlock(w) ==
    /\ progress.worker[w].pc = "compared"
    /\ ThrottleStep(
          IF progress.worker[w].emit
          THEN [progress EXCEPT
                  !.worker[w].pc = "ready",
                  !.last_time = progress.worker[w].now,
                  !.grants = Append(@, [worker |-> w, now |-> progress.worker[w].now])]
          ELSE [progress EXCEPT !.worker[w].pc = "ready"])

NextThrottle ==
    \/ Tick
    \/ \E w \in Workers : Lock(w)
    \/ \E w \in Workers : ReadNow(w)
    \/ \E w \in Workers : Compare(w)
    \/ \E w \in Workers : Unlock(w)

SpecThrottle == InitThrottle /\ [][NextThrottle]_vars

\* C16: the clock readings of two grants of should_emit = true are more than
\* 100 ms apart, whatever the interleaving of the workers, and the number of
\* grants times 100 ms is at most the time elapsed since the traversal
\* started, however many entries were visited.
C16_Throttle ==
    /\ \A i, j \in 1..Len(progress.grants) :
          i < j => progress.grants[j].now - progress.grants[i].now > THROTTLE_MS
    /\ Len(progress.grants) * THROTTLE_MS <= progress.clock

\* C16 witness: both workers were granted an emission, and at least one
\* visit was denied.
C16_Witness ==
    /\ \A w \in Workers : \E i \in 1..Len(progress.grants) : progress.grants[i].worker = w
    /\ LockFree(progress)
    /\ progress.visited > Len(progress.grants)

(***************************************************************************)
(* Readers next to an index run: specification SpecConcurrent.  The batch   *)
(* is written statement by statement on the one connection that readers     *)
(* use too; `files` is what a SELECT on that connection returns.             *)
(***************************************************************************)
InTransaction == pc = "persist" /\ run.snapshot # None

\* conn.transaction()
BeginBatch ==
    /\ pc = "persist"
    /\ run.snapshot = None
    /\ run.batch <= NumChunks(run.entries)
    /\ run' = [run EXCEPT !.snapshot = Some(files), !.applied = 0]
    /\ UNCHANGED <<settings, history, cache, fs, rules, files, respect, pc, pre, last, result, ops, progress>>

\* The next upsert of the batch, inside the transaction.
UpsertStatement ==
    /\ InTransaction
    /\ run.applied < Len(Chunk(run.entries, run.batch))
    /\ files' = UpsertEntry(files, Chunk(run.entries, run.batch)[run.applied + 1])
    /\ run' = [run EXCEPT !.applied = @ + 1]
    /\ UNCHANGED <<settings, history, cache, fs, rules, respect, pc, pre, last, result, ops, progress>>

\* tx.commit()
CommitBatch ==
    /\ InTransaction
    /\ run.applied = Len(Chunk(run.entries, run.batch))
    /\ run' = [run EXCEPT !.snapshot = None, !.applied = 0, !.batch = @ + 1,
                          !.total_inserted = @ + Len(Chunk(run.entries, run.batch))]
    /\ UNCHANGED <<settings, history, cache, fs, rules, files, respect, pc, pre, last, result, ops, progress>>

\* A statement or the commit fails: the transaction is dropped, its
\* statements are rolled back, the run returns the error and the guard.
RollbackBatch ==
    /\ InTransaction
    /\ files' = Unwrap(run.snapshot)
    /\ run' = [run EXCEPT !.snapshot = None, !.applied = 0]
    /\ pc' = "idle"
    /\ last' = None
    /\ result' = Returned("index_folder", FALSE, "Failed to index folder")
    /\ UNCHANGED <<settings, history, cache, fs, rules, respect, pre, ops, progress>>

ReaderArgs == {None, Some(Root), Some(Src)}

NextConcurrent ==
    \/ \E root \in {Root, Src} : IndexFolder(root)
    \/ BeginBatch
    \/ UpsertStatement
    \/ CommitBatch
    \/ RollbackBatch
    \/ IndexFolderReturns
    \/ \E parent_path \in ReaderArgs : GetChildrenCall(parent_path)

SpecConcurrent == Init /\ [][NextConcurrent]_vars

\* A get_children call returns in this step.
ReaderReturns ==
    /\ result'.cmd = "get_children"
    /\ UNCHANGED <<files, run, pc>>

MissingRootReturns ==
    /\ result' # result
    /\ result' = Returned("index_folder", FALSE, "Path does not exist")

\* A traversal starts in this step.
RunStarts == pc = "idle" /\ pc' = "persist"

\* C18: index_folder with a root that does not exist returns an error before
\* the traversal: no run starts on a missing root, and the step that returns
\* the error leaves the index, the record of the run (rule-file discovery,
\* candidates, final notification) and the progress throttle as they were.
C18_MissingRootFailsEarly ==
    [][/\ RunStarts => Kind(fs, run'.root) # "none"
       /\ MissingRootReturns =>
             /\ \E root \in Roots : Kind(fs, root) = "none"
             /\ UNCHANGED <<settings, history, cache, files, run, progress, pc, pre, fs, rules, respect>>]_vars

\* C18 witness: index_folder has returned the error while the index held
\* rows and /root/src/a.log was gone from disk.
C18_Witness ==
    /\ result = Returned("index_folder", FALSE, "Path does not exist")
    /\ Kind(fs, SrcLog) = "none"
    /\ files # {}
    /\ pc = "idle"

(***************************************************************************)
(* Separators: specification SpecNormalize.  Here a path is its text: a     *)
(* sequence of tokens, each a separator ("/" or "\\") or a component; no     *)
(* component of the tree holds a separator character.  The table holds the   *)
(* texts an index run writes on a platform with either separator.            *)
(***************************************************************************)
Separators == {"/", "\\"}

\* path.to_str() on a platform whose separator is sep.
RECURSIVE NativeText(_, _)
NativeText(p, sep) ==
    IF p = <<>> THEN <<sep>>
    ELSE IF Len(p) = 1 THEN <<sep, p[1]>>
    ELSE NativeText(Front(p), sep) \o <<sep, p[Len(p)]>>

\* normalize_path: path.replace('\\', "/")
NormalizePath(text) == [i \in DOMAIN text |-> IF text[i] = "\\" THEN "/" ELSE text[i]]

\* The row an index run writes for the entry at p: path_str and parent_path
\* of from_dir_entry are the normalized texts.
TextRow(p, sep) ==
    [RowOf(FromDirEntry(InitFs, p)) EXCEPT
        !.path = NormalizePath(NativeText(p, sep)),
        !.parent_path = Some(NormalizePath(NativeText(Front(p), sep)))]

TextPaths == {Root, RootIgnore, Src, SrcIgnore, SrcLog}

\* A text with the separators a caller may write: all of one style, or mixed.
QueryTexts ==
    {NativeText(d, sep) : d \in {Root, Src}, sep \in Separators}
        \cup {<<"/", "root", "\\", "src">>}

InitNormalize ==
    /\ fs = InitFs
    /\ rules = [p \in {RootIgnore, SrcIgnore} |-> <<>>]
    /\ files \in {{TextRow(p, sep) : p \in S} : S \in SUBSET TextPaths, sep \in Separators}
    /\ respect = TRUE
    /\ pc = "idle"
    /\ run = NoRun
    /\ pre = {}
    /\ last = None
    /\ result = NoResult
    /\ ops = 0
    /\ progress = NoProgress
    /\ history = NoHistory
    /\ cache = NoCache
    /\ settings = NoSettings

NextNormalize == \E text \in QueryTexts : GetChildrenCall(Some(text))

SpecNormalize == InitNormalize /\ [][NextNormalize]_vars

HasBackslash(text) == \E i \in DOMAIN text : text[i] = "\\"

\* C19: no path and no parent_path of a row holds a backslash, and
\* get_children(Some(p)) returns for p written with backslashes what it
\* returns for p written with forward slashes.
C19_SeparatorsResolveAlike ==
    /\ \A r \in files :
          ~HasBackslash(r.path) /\ (r.parent_path # None => ~HasBackslash(Unwrap(r.parent_path)))
    /\ result.cmd = "get_children" =>
          result.value.entries =
              GetChildren(files, Some(NormalizePath(Unwrap(result.value.parent_path))))

(***************************************************************************)
(* search_path: specification SpecSearch.  A text (a query, a name, a path) *)
(* is a sequence of characters.                                              *)
(***************************************************************************)
\* char::is_whitespace, for the characters of the model.
IsSpace(c) == c \in {" ", "\t", "\n"}

RECURSIVE TrimStart(_)
TrimStart(t) == IF t # <<>> /\ IsSpace(Head(t)) THEN TrimStart(Tail(t)) ELSE t

RECURSIVE TrimEnd(_)
TrimEnd(t) == IF t # <<>> /\ IsSpace(t[Len(t)]) THEN TrimEnd(Front(t)) ELSE t

\* str::trim
Trim(t) == TrimEnd(TrimStart(t))

\* str::split_whitespace: the maximal runs of non-whitespace characters.
RECURSIVE SplitFrom(_, _)
SplitFrom(t, cur) ==
    LET done == IF cur = <<>> THEN <<>> ELSE <<cur>>
    IN  IF t = <<>> THEN done
        ELSE IF IsSpace(Head(t)) THEN done \o SplitFrom(Tail(t), <<>>)
        ELSE SplitFrom(Tail(t), Append(cur, Head(t)))

SplitWhitespace(t) == SplitFrom(t, <<>>)

\* str::to_lowercase, for the letters of the model.
ToLowerChar(c) ==
    CASE c = "A" -> "a" [] c = "B" -> "b" [] c = "D" -> "d" [] c = "E" -> "e"
      [] c = "F" -> "f" [] c = "I" -> "i" [] c = "L" -> "l" [] c = "R" -> "r"
      [] c = "S" -> "s" [] OTHER -> c

ToLowercase(t) == [i \in DOMAIN t |-> ToLowerChar(t[i])]

StartsWithText(t, prefix) == Len(t) >= Len(prefix) /\ SubSeq(t, 1, Len(prefix)) = prefix

\* str::contains
ContainsText(t, sub) ==
    \E i \in 0..(Len(t) - Len(sub)) : SubSeq(t, i + 1, i + Len(sub)) = sub

FilePrefix == <<"f", "i", "l", "e", ":">>
DirPrefix == <<"d", "i", "r", ":">>

\* The loop over the parts of the query: a later file: or dir: part
\* overwrites an earlier one; every other part is kept.
RECURSIVE ParseParts(_, _)
ParseParts(parts, acc) ==
    IF parts = <<>> THEN acc
    ELSE LET part == Head(parts)
             lower == ToLowercase(part)
         IN  ParseParts(Tail(parts),
                 IF StartsWithText(lower, FilePrefix) /\ Len(part) > Len(FilePrefix)
                 THEN [acc EXCEPT !.file_name =
                          Some(SubSeq(part, Len(FilePrefix) + 1, Len(part)))]
                 ELSE IF StartsWithText(lower, DirPrefix) /\ Len(part) > Len(DirPrefix)
                 THEN [acc EXCEPT !.directory_name =
                          Some(SubSeq(part, Len(DirPrefix) + 1, Len(part)))]
                 ELSE [acc EXCEPT !.remaining_parts = Append(@, part)])

\* remaining_parts.join(" ")
RECURSIVE Join(_)
Join(parts) ==
    IF parts = <<>> THEN <<>>
    ELSE IF Len(parts) = 1 THEN parts[1]
    ELSE parts[1] \o <<" ">> \o Join(Tail(parts))

\* The character class of regex_special.
RegexSpecialChars ==
    {".", "*", "?", "[", "]", "(", ")", "|", "^", "$", "{", "}", "+", "\\"}

HasRegexSpecial(t) == \E i \in DOMAIN t : t[i] \in RegexSpecialChars

\* A compiler that accepts every pattern.
RegexCompilesAlways(t) == TRUE

\* Regex::new on the patterns of the model, which are made of literal
\* characters, "." and "[": a "[" is never closed and does not compile.
RegexCompiles(t) == \A i \in DOMAIN t : t[i] # "["

\* Regex::is_match for "(?i)" and such a pattern: "." stands for any
\* character, a letter for itself in either case.
RegexIsMatch(pattern, text) ==
    \E i \in 0..(Len(text) - Len(pattern)) :
        \A k \in 1..Len(pattern) :
            \/ pattern[k] = "."
            \/ ToLowerChar(pattern[k]) = ToLowerChar(text[i + k])

\* SearchFilter::default()
DefaultFilter ==
    [file_name |-> None, directory_name |-> None,
     regex_pattern |-> None, plain_text |-> None]

\* parse_search_query
ParseSearchQuery(query) ==
    LET trimmed == Trim(query)
    IN  IF trimmed = <<>> THEN DefaultFilter
        ELSE LET acc == ParseParts(SplitWhitespace(trimmed),
                                   [file_name |-> None, directory_name |-> None,
                                    remaining_parts |-> <<>>])
                 remaining == Join(acc.remaining_parts)
                 asRegex == /\ remaining # <<>>
                            /\ HasRegexSpecial(remaining)
                            /\ RegexCompiles(remaining)
             IN  [file_name |-> acc.file_name,
                  directory_name |-> acc.directory_name,
                  regex_pattern |-> IF asRegex THEN Some(remaining) ELSE None,
                  plain_text |-> IF remaining # <<>> /\ ~asRegex
                                 THEN Some(remaining) ELSE None]

\* The test at the head of search_db.
FilterIsEmpty(f) ==
    /\ f.file_name = None /\ f.directory_name = None
    /\ f.regex_pattern = None /\ f.plain_text = None

\* text LIKE pat, as SQLite evaluates it with no ESCAPE clause: "%" stands
\* for any run of characters, "_" for any one character, a letter for
\* itself in either case.
RECURSIVE LikeMatch(_, _)
LikeMatch(text, pat) ==
    IF pat = <<>> THEN text = <<>>
    ELSE IF Head(pat) = "%"
    THEN LikeMatch(text, Tail(pat)) \/ (text # <<>> /\ LikeMatch(Tail(text), pat))
    ELSE /\ text # <<>>
         /\ Head(pat) = "_" \/ ToLowerChar(Head(pat)) = ToLowerChar(Head(text))
         /\ LikeMatch(Tail(text), Tail(pat))

\* LOWER(column) LIKE ?, bound to format!("%{}%", x.to_lowercase()).
Like(text, x) == LikeMatch(ToLowercase(text), <<"%">> \o ToLowercase(x) \o <<"%">>)

\* The WHERE clause search_db builds, applied to the row r.
WhereClause(f, r) ==
    /\ IF f.file_name # None /\ f.directory_name # None
       THEN /\ ~r.is_dir
            /\ Like(r.name, Unwrap(f.file_name))
            /\ Like(r.path, <<"/">> \o Unwrap(f.directory_name) \o <<"/">>)
       ELSE /\ f.file_name # None => ~r.is_dir /\ Like(r.name, Unwrap(f.file_name))
            /\ f.directory_name # None =>
                  r.is_dir /\ Like(r.name, Unwrap(f.directory_name))
    /\ f.plain_text # None =>
          Like(r.name, Unwrap(f.plain_text)) \/ Like(r.path, Unwrap(f.plain_text))

\* The text the results are scored against.
ScoreQuery(f) ==
    IF f.file_name # None THEN Unwrap(f.file_name)
    ELSE IF f.directory_name # None THEN Unwrap(f.directory_name)
    ELSE IF f.plain_text # None THEN Unwrap(f.plain_text)
    ELSE <<>>

\* A score that gives the bonus for a short name to every name that
\* contains the query.
ComputeScoreAnyLength(name, path, query, is_dir) ==
    IF query = <<>> THEN 0
    ELSE LET name_lower == ToLowercase(name)
             path_lower == ToLowercase(path)
             query_lower == ToLowercase(query)
             base == IF name_lower = query_lower THEN 100
                     ELSE IF StartsWithText(name_lower, query_lower) THEN 50
                     ELSE IF ContainsText(name_lower, query_lower) THEN 30
                     ELSE IF ContainsText(path_lower, query_lower) THEN 10
                     ELSE 0
             short == IF ContainsText(name_lower, query_lower) THEN 5 ELSE 0
         IN  IF ~is_dir /\ base + short > 0 THEN base + short + 1 ELSE base + short

\* compute_score
ComputeScore(name, path, query, is_dir) ==
    IF query = <<>> THEN 0
    ELSE LET name_lower == ToLowercase(name)
             path_lower == ToLowercase(path)
             query_lower == ToLowercase(query)
             base == IF name_lower = query_lower THEN 100
                     ELSE IF StartsWithText(name_lower, query_lower) THEN 50
                     ELSE IF ContainsText(name_lower, query_lower) THEN 30
                     ELSE IF ContainsText(path_lower, query_lower) THEN 10
                     ELSE 0
             short == IF ContainsText(name_lower, query_lower) /\ Len(name) < 20
                      THEN 5 ELSE 0
         IN  IF ~is_dir /\ base + short > 0 THEN base + short + 1 ELSE base + short

\* LIMIT 500.  The model fetches at most min(SEARCH_LIMIT, MaxFetch) rows so
\* that a table of a few rows exceeds the cap.
SEARCH_LIMIT == 500
MaxFetch == 3
FetchLimit == IF SEARCH_LIMIT < MaxFetch THEN SEARCH_LIMIT ELSE MaxFetch

\* A SELECT with no LIMIT.
FetchesAll(tbl, f) == {{r \in tbl : WhereClause(f, r)}}

\* The sets of rows the SELECT may return: the matching rows, or any
\* FetchLimit of them when there are more (the statement has no ORDER BY).
Fetches(tbl, f) ==
    LET matching == {r \in tbl : WhereClause(f, r)}
    IN  IF Cardinality(matching) <= FetchLimit THEN {matching}
        ELSE {S \in SUBSET matching : Cardinality(S) = FetchLimit}

\* A SearchResult: the columns, child_count, and the score.
SearchResultOf(tbl, r, score) == WithChildCount(tbl, r) @@ ("score" :> score)

\* A regex filter that drops the rows without a match and leaves the score
\* of compute_score to the others.
FinalScoreKeepsComputed(f, r) ==
    IF f.regex_pattern # None
       /\ ~RegexIsMatch(Unwrap(f.regex_pattern), r.name)
       /\ ~RegexIsMatch(Unwrap(f.regex_pattern), r.path)
    THEN 0
    ELSE ComputeScore(r.name, r.path, ScoreQuery(f), r.is_dir)

\* The score a fetched row ends with: compute_score, replaced by 50 or 10
\* when the query is a regex (0 stands for a row the regex filter drops).
FinalScore(f, r) ==
    IF f.regex_pattern # None
    THEN IF RegexIsMatch(Unwrap(f.regex_pattern), r.name) THEN 50
         ELSE IF RegexIsMatch(Unwrap(f.regex_pattern), r.path) THEN 10
         ELSE 0
    ELSE ComputeScore(r.name, r.path, ScoreQuery(f), r.is_dir)

\* The code of a character, for the characters of names.
CharCode(c) ==
    CASE c = "." -> 46 [] c = "/" -> 47 [] c = "A" -> 65 [] c = "B" -> 66
      [] c = "S" -> 83 [] c = "[" -> 91 [] c = "_" -> 95 [] c = "a" -> 97
      [] c = "b" -> 98 [] c = "s" -> 115
      [] OTHER -> 0

\* a.cmp(&b) is not Greater, for two names.
RECURSIVE TextLeq(_, _)
TextLeq(a, b) ==
    IF a = <<>> THEN TRUE
    ELSE IF b = <<>> THEN FALSE
    ELSE IF CharCode(Head(a)) # CharCode(Head(b)) THEN CharCode(Head(a)) < CharCode(Head(b))
    ELSE TextLeq(Tail(a), Tail(b))

\* The comparator of sort_by gives Greater: a sorts after b.
SortsAfter(a, b) ==
    \/ a.score < b.score
    \/ a.score = b.score /\ ~TextLeq(a.name, b.name)

\* One step of a stable sort: x goes before the first element that sorts
\* after it.
RECURSIVE InsertResult(_, _)
InsertResult(sorted, x) ==
    IF sorted = <<>> THEN <<x>>
    ELSE IF SortsAfter(Head(sorted), x) THEN <<x>> \o sorted
    ELSE <<Head(sorted)>> \o InsertResult(Tail(sorted), x)

\* A sort that orders by score only and leaves ties as they were fetched.
RECURSIVE SortResultsByScore(_)
SortResultsByScore(list) ==
    IF list = <<>> THEN <<>>
    ELSE LET x == list[Len(list)]
             rest == SortResultsByScore(Front(list))
             Before(r) == r.score >= x.score
             After(r) == r.score < x.score
         IN  SelectSeq(rest, Before) \o <<x>> \o SelectSeq(rest, After)

\* results.sort_by(score descending, then name ascending), a stable sort.
RECURSIVE SortResults(_)
SortResults(list) ==
    IF list = <<>> THEN <<>>
    ELSE InsertResult(SortResults(Front(list)), list[Len(list)])

\* results.retain(|r| r.score > 0)
RetainPositive(list) ==
    LET Positive(r) == r.score > 0
    IN  SelectSeq(list, Positive)

\* search_db for a filter that is not empty: every list it may return.  The
\* statement has no ORDER BY, so the fetched rows come in any order.
SearchFiltered(tbl, f) ==
    UNION {{SortResults(RetainPositive(list)) :
               list \in Orders({SearchResultOf(tbl, r, FinalScore(f, r)) : r \in fetched})} :
           fetched \in Fetches(tbl, f)}

\* A search that lists the table when the query holds no filter.
SearchDbListAll(tbl, pattern) ==
    LET f == ParseSearchQuery(pattern)
    IN  IF FilterIsEmpty(f)
        THEN UNION {Orders({SearchResultOf(tbl, r, 0) : r \in fetched}) :
                       fetched \in Fetches(tbl, f)}
        ELSE SearchFiltered(tbl, f)

\* search_db: every list it may return for the pattern.
SearchDb(tbl, pattern) ==
    LET f == ParseSearchQuery(pattern)
    IN  IF FilterIsEmpty(f) THEN {<<>>} ELSE SearchFiltered(tbl, f)

\* The row of an entry with the given path and name.
SearchRow(parent, path, name, is_dir) ==
    [path |-> path, parent_path |-> Some(parent), name |-> name,
     size |-> IF is_dir THEN None ELSE Some(1), mtime |-> Some(1),
     is_dir |-> is_dir, token_count |-> None,
     fingerprint |-> IF is_dir THEN None ELSE Some("1_1")]

\* A name of twenty characters.
LongName == [i \in 1..20 |-> "b"]

\* The directories /s and /a_b, and the files /s/a, /s/A, /s/[, /ab,
\* /a_b/asb and /bbbbbbbbbbbbbbbbbbbb.
SearchRows ==
    {SearchRow(<<"/">>, <<"/", "s">>, <<"s">>, TRUE),
     SearchRow(<<"/", "s">>, <<"/", "s", "/", "a">>, <<"a">>, FALSE),
     SearchRow(<<"/", "s">>, <<"/", "s", "/", "A">>, <<"A">>, FALSE),
     SearchRow(<<"/", "s">>, <<"/", "s", "/", "[">>, <<"[">>, FALSE),
     SearchRow(<<"/">>, <<"/", "a", "b">>, <<"a", "b">>, FALSE),
     SearchRow(<<"/">>, <<"/", "a", "_", "b">>, <<"a", "_", "b">>, TRUE),
     SearchRow(<<"/", "a", "_", "b">>, <<"/", "a", "_", "b", "/", "a", "s", "b">>,
               <<"a", "s", "b">>, FALSE),
     SearchRow(<<"/">>, <<"/">> \o LongName, LongName, FALSE)}

Queries ==
    {<<>>, <<" ">>, <<" ", "\t">>, <<"\n", " ", " ">>,
     <<"a">>, <<" ", "a", " ">>, <<"A", "B">>, <<"s">>, <<"b">>, <<"a", "_", "b">>,
     <<"f", "i", "l", "e", ":", "a">>, <<"d", "i", "r", ":", "s">>,
     <<"F", "I", "L", "E", ":", "A">>, <<"D", "I", "R", ":", "a">>,
     <<"f", "i", "l", "e", ":", "a", "_", "b">>,
     <<"f", "i", "l", "e", ":", "a", "b", " ", "f", "i", "l", "e", ":", "a">>,
     <<"F", "I", "L", "E", ":", "a", " ", "d", "i", "r", ":", "s">>,
     <<"f", "i", "l", "e", ":", "a", " ", "d", "i", "r", ":", "a">>,
     <<"f", "i", "l", "e", ":", "a", " ", ".">>,
     <<"f", "i", "l", "e", ":", "a", " ", "s", "/", ".">>,
     <<"s", "/", ".">>,
     <<".">>, <<"[">>, <<"S", "/", "[">>, <<"a", " ", "b">>}

InitSearch ==
    /\ fs = InitFs
    /\ rules = [p \in {RootIgnore, SrcIgnore} |-> <<>>]
    /\ files \in SUBSET SearchRows
    /\ respect = TRUE
    /\ pc = "idle"
    /\ run = NoRun
    /\ pre = {}
    /\ last = None
    /\ result = NoResult
    /\ ops = 0
    /\ progress = NoProgress
    /\ history = NoHistory
    /\ cache = NoCache
    /\ settings = NoSettings

\* search_path(pattern): db.lock(), search_db.
SearchPathCall(pattern) ==
    /\ StoreLockFree
    /\ \E list \in SearchDb(files, pattern) :
          result' = Returned("search_path", TRUE, [pattern |-> pattern, results |-> list])
    /\ UNCHANGED <<settings, history, cache, fs, rules, files, respect, pc, run, pre, last, ops, progress>>

NextSearch == \E pattern \in Queries : SearchPathCall(pattern)

SpecSearch == InitSearch /\ [][NextSearch]_vars

\* C20: a query that is empty or made of whitespace only returns the empty
\* list, whatever the index holds.
C20_BlankQueryFindsNothing ==
    /\ result.cmd = "search_path"
    /\ \A i \in DOMAIN result.value.pattern : IsSpace(result.value.pattern[i])
    => result.value.results = <<>>

\* C20 witness: a whitespace-only query was run on an index that holds all
\* the rows, directories and files.
C20_Witness ==
    /\ result.cmd = "search_path"
    /\ result.value.pattern = <<" ", "\t">>
    /\ files = SearchRows

\* The name contains the text, letters compared without regard to case.
NameContains(name, text) == ContainsText(ToLowercase(name), ToLowercase(text))

\* The filter of the query that search_path has just answered.
AnsweredFilter == ParseSearchQuery(result.value.pattern)

\* C21: every result of a query with a file: token and no dir: token is a
\* non-directory entry whose name contains the token's name, and every
\* result of a query with a dir: token and no file: token is a directory
\* whose name contains the token's name, letters compared without regard to
\* case; FILE: and DIR: count as the prefixes.
C21_PrefixFilters ==
    result.cmd = "search_path" =>
        \A i \in DOMAIN result.value.results :
            LET r == result.value.results[i]
                f == AnsweredFilter
            IN  /\ f.file_name # None /\ f.directory_name = None =>
                      ~r.is_dir /\ NameContains(r.name, Unwrap(f.file_name))
                /\ f.directory_name # None /\ f.file_name = None =>
                      r.is_dir /\ NameContains(r.name, Unwrap(f.directory_name))

\* The components of a path text, the text cut at every "/".
RECURSIVE SegmentsFrom(_, _)
SegmentsFrom(t, cur) ==
    LET done == IF cur = <<>> THEN <<>> ELSE <<cur>>
    IN  IF t = <<>> THEN done
        ELSE IF Head(t) = "/" THEN done \o SegmentsFrom(Tail(t), <<>>)
        ELSE SegmentsFrom(Tail(t), Append(cur, Head(t)))

\* The directory segments of a path: its components but the last.
DirSegments(path) == Front(SegmentsFrom(path, <<>>))

\* The row lies under a directory segment that contains the text.
UnderSegment(r, text) ==
    \E i \in DOMAIN DirSegments(r.path) : NameContains(DirSegments(r.path)[i], text)

\* C22: for a query file:X dir:Y every result is a non-directory entry whose
\* name contains X and that lies under a directory segment containing Y, and
\* when the table is within the cap every such entry is returned.
C22_FileUnderDirectory ==
    /\ result.cmd = "search_path"
    /\ AnsweredFilter.file_name # None
    /\ AnsweredFilter.directory_name # None
    /\ AnsweredFilter.regex_pattern = None
    /\ AnsweredFilter.plain_text = None
    => LET X == Unwrap(AnsweredFilter.file_name)
           Y == Unwrap(AnsweredFilter.directory_name)
           returned == {result.value.results[i].path : i \in DOMAIN result.value.results}
           expected == {r \in files : ~r.is_dir /\ NameContains(r.name, X)
                                       /\ UnderSegment(r, Y)}
       IN  /\ returned \subseteq {r.path : r \in expected}
           /\ Cardinality(files) <= FetchLimit =>
                 {r.path : r \in expected} \subseteq returned

\* How the name and the path of an entry match the text q.
MatchClass(r, q) ==
    IF ToLowercase(r.name) = ToLowercase(q) THEN "exact"
    ELSE IF StartsWithText(ToLowercase(r.name), ToLowercase(q)) THEN "prefix"
    ELSE IF NameContains(r.name, q) THEN "contains"
    ELSE IF NameContains(r.path, q) THEN "path"
    ELSE "none"

ClassBase(class) ==
    CASE class = "exact" -> 100 [] class = "prefix" -> 50
      [] class = "contains" -> 30 [] class = "path" -> 10 [] OTHER -> 0

ClassRank(class) ==
    CASE class = "exact" -> 4 [] class = "prefix" -> 3
      [] class = "contains" -> 2 [] class = "path" -> 1 [] OTHER -> 0

\* The query answered is plain text only.
AnsweredPlainText ==
    /\ result.cmd = "search_path"
    /\ AnsweredFilter.plain_text # None
    /\ AnsweredFilter.file_name = None
    /\ AnsweredFilter.directory_name = None

C24_PositiveAndOrdered ==
    result.cmd = "search_path" =>
        LET list == result.value.results
        IN  /\ \A i \in DOMAIN list : list[i].score > 0
            /\ \A i \in 1..(Len(list) - 1) :
                  \/ list[i].score > list[i + 1].score
                  \/ /\ list[i].score = list[i + 1].score
                     /\ TextLeq(list[i].name, list[i + 1].name)

\* C24 witness: a list with two results of the same score whose names
\* differ by case only, followed by a result of a lower score.
C24_Witness ==
    /\ result.cmd = "search_path"
    /\ Len(result.value.results) = 3
    /\ result.value.results[1].name = <<"A">>
    /\ result.value.results[2].name = <<"a">>
    /\ result.value.results[1].score = result.value.results[2].score
    /\ result.value.results[3].score < result.value.results[2].score

\* The free text of the query answered: the query without the whitespace
\* around it, when it is one word that is not a file: or dir: token.
AnsweredFreeText == Trim(result.value.pattern)

\* The query answered is free text with a regex metacharacter that does not
\* compile as a regex.
AnsweredInvalidRegex ==
    /\ result.cmd = "search_path"
    /\ \A i \in DOMAIN AnsweredFreeText : ~IsSpace(AnsweredFreeText[i])
    /\ ~StartsWithText(ToLowercase(AnsweredFreeText), FilePrefix)
    /\ ~StartsWithText(ToLowercase(AnsweredFreeText), DirPrefix)
    /\ \E i \in DOMAIN AnsweredFreeText : AnsweredFreeText[i] \in RegexSpecialChars
    /\ \E i \in DOMAIN AnsweredFreeText : AnsweredFreeText[i] = "["

\* C25: a free text with regex metacharacters that does not compile never
\* makes the search fail; it is taken as plain text, the literal itself, and
\* the search returns entries whose name or path contains the literal, all
\* of them when the table is within the cap.
C25_RegexFallback ==
    AnsweredInvalidRegex =>
        LET literal == AnsweredFreeText
            returned == {result.value.results[i].path : i \in DOMAIN result.value.results}
            expected == {r.path : r \in {r \in files : \/ NameContains(r.name, literal)
                                                       \/ NameContains(r.path, literal)}}
        IN  /\ result.ok
            /\ AnsweredFilter.plain_text = Some(literal)
            /\ AnsweredFilter.regex_pattern = None
            /\ returned \subseteq expected
            /\ Cardinality(files) <= FetchLimit => returned = expected

\* C25 witness: the query "S/[" was answered with the file /s/[, found by
\* its path.
C25_Witness ==
    /\ AnsweredInvalidRegex
    /\ result.value.pattern = <<"S", "/", "[">>
    /\ Len(result.value.results) = 1
    /\ result.value.results[1].name = <<"[">>

\* C26: a search fetches at most the capped number of rows, so the list it
\* returns is never longer than the cap.
C26_ResultCap ==
    result.cmd = "search_path" =>
        /\ Len(result.value.results) <= FetchLimit
        /\ FetchLimit <= SEARCH_LIMIT

\* C26 witness: more rows match the query than the cap allows and the list
\* returned is as long as the cap.
C26_Witness ==
    /\ result.cmd = "search_path"
    /\ Cardinality({r \in files : WhereClause(AnsweredFilter, r)}) > FetchLimit
    /\ Len(result.value.results) = FetchLimit

\* An index run went through its last batch and index_folder has just
\* returned: the tree is the one the run walked.
RunCompleted ==
    /\ pc = "idle"
    /\ result.cmd = "index_folder"
    /\ run.final_progress # <<>>
    /\ last = Some(Seen(run.root))

\* The entries the traversal passes to the per-entry closure, and those of
\* them whose metadata cannot be read.
RunYield == {p \in Visited : FilterEntry(fs, RunManager, p)}

RunUnreadable == {p \in RunYield : ~DirEntryMetadataOk(fs, p)}

\* The soft-failure handling of the traversal: the error counter counts the
\* unreadable entries, the candidates are the other entries passed on, and
\* each candidate has a row in the index after the run.
SoftFailuresSkipped ==
    /\ run.error_count = Cardinality(RunUnreadable)
    /\ {run.entries[i].path : i \in 1..Len(run.entries)} = RunYield \ RunUnreadable
    /\ \A i \in 1..Len(run.entries) : HasRow(files, run.entries[i].path)

\* C27: when the metadata of an entry cannot be read during the traversal,
\* the error counter grows by one, the entry is left out, every other
\* entry is collected and persisted, and the run completes with a count
\* instead of failing.
C27_SoftFailures ==
    RunCompleted /\ RunUnreadable # {} =>
        /\ SoftFailuresSkipped
        /\ result.ok
        /\ result.value = Len(run.entries)

\* The count a Result<u64, String> hands to the caller: the u64 of Ok; an
\* Err holds the message only.
CountOf(res) == IF res.ok THEN Some(res.value) ELSE None

\* C28: when a batch fails during an index run the caller gets the failure
\* together with the number of entries of the batches committed before it.
C28_PartialCount ==
    BatchFailed =>
        /\ ~result.ok
        /\ CountOf(result) = Some(Cardinality(CommittedCandidates))

(***************************************************************************)
(* The session history: specification SpecHistory.  A row of the history   *)
(* table is its id and its created_at; history.rows is the table.          *)
(***************************************************************************)
MAX_HISTORY == 10
KEPT_BEFORE_INSERT == 9
MaxSaves == 12

\* The rowid SQLite gives to a row inserted into a table with an INTEGER
\* PRIMARY KEY that is not AUTOINCREMENT: one more than the largest in use.
NextRowId(rows) ==
    IF rows = {} THEN 1
    ELSE 1 + CHOOSE m \in {r.id : r \in rows} : \A r \in rows : r.id <= m

\* An eviction that takes the newest rows.
EvictedNewest(rows, n) ==
    {E \in SUBSET rows :
        /\ Cardinality(E) = n
        /\ \A e \in E : \A r \in rows \ E : e.created_at >= r.created_at}

\* DELETE FROM history WHERE id IN (SELECT id FROM history ORDER BY
\* created_at ASC LIMIT n): the sets of rows it may delete; rows with equal
\* created_at come in any order.
Evicted(rows, n) ==
    {E \in SUBSET rows :
        /\ Cardinality(E) = n
        /\ \A e \in E : \A r \in rows \ E : e.created_at <= r.created_at}

InitHistory ==
    /\ fs = InitFs
    /\ rules = [p \in {RootIgnore, SrcIgnore} |-> <<>>]
    /\ files = {}
    /\ respect = TRUE
    /\ pc = "idle"
    /\ run = NoRun
    /\ pre = {}
    /\ last = None
    /\ result = NoResult
    /\ ops = 0
    /\ progress = NoProgress
    /\ history = NoHistory
    /\ cache = NoCache
    /\ settings = NoSettings

\* save_history: count, evict when the table holds MAX_HISTORY rows or more,
\* insert the new row with the time of the clock.  The clock of a save is
\* that of the save before or a later one.
SaveHistory ==
    /\ StoreLockFree
    /\ history.saves < MaxSaves
    /\ LET count == Cardinality(history.rows)
       IN  \E E \in (IF count >= MAX_HISTORY
                     THEN Evicted(history.rows, count - KEPT_BEFORE_INSERT)
                     ELSE {{}}) :
           \E created_at \in {history.now, history.now + 1} :
              LET kept == history.rows \ E
                  id == NextRowId(kept)
              IN  /\ history' = [rows |-> kept \cup {[id |-> id, created_at |-> created_at]},
                                 now |-> created_at,
                                 saves |-> history.saves + 1]
                  /\ result' = Returned("save_history", TRUE, id)
    /\ UNCHANGED <<settings, cache, fs, rules, files, respect, pc, run, pre, last, ops, progress>>

\* clear_history: DELETE FROM history.
ClearHistory ==
    /\ StoreLockFree
    /\ history.rows # {}
    /\ history' = [history EXCEPT !.rows = {}]
    /\ result' = Returned("clear_history", TRUE, 0)
    /\ UNCHANGED <<settings, cache, fs, rules, files, respect, pc, run, pre, last, ops, progress>>

NextHistory == SaveHistory \/ ClearHistory

SpecHistory == InitHistory /\ [][NextHistory]_vars

\* A save_history call returns in this step.
SaveStep == history'.saves = history.saves + 1

\* C29: after a save the history holds at most MAX_HISTORY rows, as many as
\* before plus one when that is within the cap; the row just saved is
\* there; every row the save evicted has a created_at no larger than that
\* of every older row it kept.
C29_HistoryCap ==
    [][SaveStep =>
          /\ Cardinality(history'.rows) <= MAX_HISTORY
          /\ Cardinality(history'.rows) =
                (IF Cardinality(history.rows) < MAX_HISTORY
                 THEN Cardinality(history.rows) + 1 ELSE MAX_HISTORY)
          /\ \E r \in history'.rows :
                r.id = result'.value /\ r.created_at = history'.now
          /\ \A e \in history.rows \ history'.rows :
                \A r \in history.rows \cap history'.rows :
                   e.created_at <= r.created_at]_vars

\* C29 witness: twelve saves at increasing times; the rows of the last ten
\* remain.
C29_Witness ==
    /\ history.saves = 12
    /\ history.rows = {[id |-> i, created_at |-> i] : i \in 3..12}

(***************************************************************************)
(* The text cache: specification SpecCache.  cache.index is the set of the *)
(* index entries, each with its key; cache.disk the set of the cache files, *)
(* each the key and the text it holds.                                      *)
(***************************************************************************)
MAX_CACHE_SIZE == 104857600
MaxCacheBytes == 3
MaxCacheTime == 1

\* max_size_bytes, capped so that texts of a few bytes exceed it.
CacheLimit == IF MAX_CACHE_SIZE < MaxCacheBytes THEN MAX_CACHE_SIZE ELSE MaxCacheBytes

\* hash_string, for a text shorter than eight bytes whose hash stays below
\* 2^31: hash * 31 + byte over the bytes, no multiplication by the odd
\* constant and no wrap.
RECURSIVE HashString(_)
HashString(t) ==
    IF t = <<>> THEN 0 ELSE HashString(Front(t)) * 31 + CharCode(t[Len(t)])

\* cache_key: the hash, which format!("{:x}") writes in hexadecimal.
CacheKey(path) == HashString(path)

CachePaths == {<<"A", "a">>, <<"B", "B">>, <<"A", "b">>}
Fingerprints == {"fp1", "fp2"}
Texts == {<<"x">>, <<"y", "y">>, <<"z", "z", "z", "z">>}

HasEntry(c, key) == \E e \in c.index : e.key = key
EntryAt(c, key) == CHOOSE e \in c.index : e.key = key
HasCacheFile(c, key) == \E d \in c.disk : d.key = key
CacheFileAt(c, key) == CHOOSE d \in c.disk : d.key = key

\* TextCache::remove
RemoveEntry(c, key) ==
    IF HasEntry(c, key)
    THEN [c EXCEPT !.index = {e \in @ : e.key # key},
                   !.current_size_bytes = @ - EntryAt(c, key).size_bytes,
                   !.disk = {d \in @ : d.key # key}]
    ELSE c

\* TextCache::evict_if_needed: the caches it may leave.  min_by_key takes
\* the first of the least recently used entries in the order of the map,
\* which is any of them.
RECURSIVE EvictIfNeeded(_)
EvictIfNeeded(c) ==
    IF c.current_size_bytes > CacheLimit /\ c.index # {}
    THEN UNION {EvictIfNeeded(RemoveEntry(c, e.key)) :
                   e \in {e \in c.index :
                             \A o \in c.index : e.last_accessed <= o.last_accessed}}
    ELSE {c}

\* TextCache::put: the caches it may leave.
PutCache(c, path, fingerprint, text) ==
    LET key == CacheKey(path)
        old == IF HasEntry(c, key) THEN EntryAt(c, key).size_bytes ELSE 0
        entry == [key |-> key, fingerprint |-> fingerprint,
                  size_bytes |-> Len(text), last_accessed |-> c.now]
    IN  EvictIfNeeded(
            [c EXCEPT !.disk = {d \in @ : d.key # key} \cup {[key |-> key, text |-> text]},
                      !.index = {e \in @ : e.key # key} \cup {entry},
                      !.current_size_bytes = @ - old + Len(text)])

\* TextCache::get: what it returns.
GetValue(c, path, fingerprint) ==
    LET key == CacheKey(path)
    IN  IF /\ HasEntry(c, key)
           /\ EntryAt(c, key).fingerprint = fingerprint
           /\ HasCacheFile(c, key)
        THEN Some(CacheFileAt(c, key).text)
        ELSE None

\* TextCache::get: the cache it leaves.
GetCache(c, path, fingerprint) ==
    LET key == CacheKey(path)
    IN  IF ~HasEntry(c, key) THEN c
        ELSE IF EntryAt(c, key).fingerprint = fingerprint
        THEN [c EXCEPT !.index = {e \in @ : e.key # key}
                           \cup {[EntryAt(c, key) EXCEPT !.last_accessed = c.now]}]
        ELSE RemoveEntry(c, key)

InitCache == InitHistory

Put(path, fingerprint, text) ==
    /\ \E c \in PutCache(cache, path, fingerprint, text) : cache' = c
    /\ result' = Returned("put", TRUE,
                          [path |-> path, fingerprint |-> fingerprint, text |-> Some(text)])
    /\ UNCHANGED <<settings, history, fs, rules, files, respect, pc, run, pre, last, ops, progress>>

Get(path, fingerprint) ==
    /\ cache' = GetCache(cache, path, fingerprint)
    /\ result' = Returned("get", TRUE,
                          [path |-> path, fingerprint |-> fingerprint,
                           text |-> GetValue(cache, path, fingerprint)])
    /\ UNCHANGED <<settings, history, fs, rules, files, respect, pc, run, pre, last, ops, progress>>

\* current_timestamp gives a later second.
CacheTick ==
    /\ cache.now < MaxCacheTime
    /\ cache' = [cache EXCEPT !.now = @ + 1]
    /\ UNCHANGED <<settings, history, fs, rules, files, respect, pc, run, pre, last, result, ops,
                   progress>>

NextCache ==
    \/ \E path \in CachePaths, fingerprint \in Fingerprints, text \in Texts :
          Put(path, fingerprint, text)
    \/ \E path \in CachePaths, fingerprint \in Fingerprints : Get(path, fingerprint)
    \/ CacheTick

SpecCache == InitCache /\ [][NextCache]_vars

\* No get for the path returns a text.
Misses(c, path) == \A fingerprint \in Fingerprints : GetValue(c, path, fingerprint) = None

\* C30: after put(path, fp, text), get(path, fp) returns the text; a get
\* with another fingerprint than the stored one returns None and leaves the
\* path without a hit for any fingerprint; a path without a hit stays so
\* until the next put for that path.
C30_KeyedByFingerprint ==
    [][/\ result'.cmd = "put" /\ result' # result =>
             GetValue(cache', result'.value.path, result'.value.fingerprint)
                = result'.value.text
       /\ \A path \in CachePaths :
             /\ (/\ result'.cmd = "get" /\ result'.value.path = path
                 /\ HasEntry(cache, CacheKey(path))
                 /\ EntryAt(cache, CacheKey(path)).fingerprint # result'.value.fingerprint
                 /\ cache' # cache)
                => result'.value.text = None /\ Misses(cache', path)
             /\ (Misses(cache, path) /\ ~(result'.cmd = "put" /\ result'.value.path = path))
                => Misses(cache', path)]_vars

(***************************************************************************)
(* The sensitive-data settings: the commands that store whether protection *)
(* is enabled and whether selecting sensitive files is prevented.          *)
(***************************************************************************)
\* bool::to_string.
BoolToString(b) == IF b THEN "true" ELSE "false"

GetSetting(s, key) == s[key]

\* INSERT OR REPLACE INTO settings (key, value).
SetSetting(s, key, value) == [s EXCEPT ![key] = Some(value)]

\* The row's value is "true"; a missing row counts as false.
IsFeatureEnabled(s) ==
    IF IsSome(GetSetting(s, KEY_ENABLED))
    THEN Unwrap(GetSetting(s, KEY_ENABLED)) = "true" ELSE FALSE

IsPreventSelectionEnabled(s) ==
    IF IsSome(GetSetting(s, KEY_PREVENT))
    THEN Unwrap(GetSetting(s, KEY_PREVENT)) = "true" ELSE FALSE

SetPreventSelectionUnguarded(s, enabled) ==
    [ok |-> TRUE, settings |-> SetSetting(s, KEY_PREVENT, BoolToString(enabled))]

\* Enabling is refused, before anything is written, while protection is off.
SetPreventSelectionInternal(s, enabled) ==
    IF enabled /\ ~IsFeatureEnabled(s)
    THEN [ok |-> FALSE, settings |-> s]
    ELSE [ok |-> TRUE, settings |-> SetSetting(s, KEY_PREVENT, BoolToString(enabled))]

\* DELETE FROM sensitive_paths, alone or as the first statement of the
\* transaction that stores the marks, fails when the table does not exist.
SensitiveMarksOk == "sensitive_paths" \in SchemaTables

\* The bound on the number of settings calls of a behaviour.
MaxCalls == 6

InitSensitive == InitHistory

SetPreventSelection(enabled) ==
    /\ ops < MaxCalls
    /\ settings' = SetPreventSelectionInternal(settings, enabled).settings
    /\ result' = Returned("set_prevent_selection",
                          SetPreventSelectionInternal(settings, enabled).ok, enabled)
    /\ ops' = ops + 1
    /\ UNCHANGED <<history, cache, fs, rules, files, respect, pc, run, pre, last, progress>>

\* The setting is stored first; the marks are rebuilt or cleared afterwards,
\* and a failure there is returned with the setting already stored.
SetSensitiveDataEnabled(enabled) ==
    /\ ops < MaxCalls
    /\ settings' = SetSetting(settings, KEY_ENABLED, BoolToString(enabled))
    /\ result' = Returned("set_sensitive_data_enabled", SensitiveMarksOk, enabled)
    /\ ops' = ops + 1
    /\ UNCHANGED <<history, cache, fs, rules, files, respect, pc, run, pre, last, progress>>

GetPreventSelection ==
    /\ ops < MaxCalls
    /\ result' = Returned("get_prevent_selection", TRUE,
                          IsPreventSelectionEnabled(settings))
    /\ ops' = ops + 1
    /\ UNCHANGED <<settings, history, cache, fs, rules, files, respect, pc, run, pre, last, progress>>

GetSensitiveDataEnabled ==
    /\ ops < MaxCalls
    /\ result' = Returned("get_sensitive_data_enabled", TRUE,
                          IsFeatureEnabled(settings))
    /\ ops' = ops + 1
    /\ UNCHANGED <<settings, history, cache, fs, rules, files, respect, pc, run, pre, last, progress>>

NextSensitive ==
    \/ \E enabled \in BOOLEAN : SetPreventSelection(enabled)
    \/ \E enabled \in BOOLEAN : SetSensitiveDataEnabled(enabled)
    \/ GetPreventSelection
    \/ GetSensitiveDataEnabled

SpecSensitive == InitSensitive /\ [][NextSensitive]_vars

\* C31: set_prevent_selection(true) while sensitive-data protection is
\* disabled returns an error and leaves the stored prevent-selection setting
\* as it was, so that on a fresh store it is still reported as false;
\* set_prevent_selection(false) succeeds in every state.
C31_PreventSelectionGuard ==
    [][(result'.cmd = "set_prevent_selection" /\ ops' # ops) =>
          /\ (result'.value /\ ~IsFeatureEnabled(settings)) =>
                /\ ~result'.ok
                /\ GetSetting(settings', KEY_PREVENT) = GetSetting(settings, KEY_PREVENT)
                /\ (settings = NoSettings => ~IsPreventSelectionEnabled(settings'))
          /\ ~result'.value => result'.ok]_vars

\* set_prevent_selection(true) was refused while protection was disabled.
C31_Witness ==
    /\ result.cmd = "set_prevent_selection"
    /\ result.value
    /\ ~result.ok
    /\ ~IsFeatureEnabled(settings)
    /\ ~IsPreventSelectionEnabled(settings)

\* C39: in every state reached through set_sensitive_data_enabled and
\* set_prevent_selection calls, prevent-selection is enabled only if
\* sensitive-data protection is enabled.
C39_PreventOnlyIfEnabled ==
    IsPreventSelectionEnabled(settings) => IsFeatureEnabled(settings)

(***************************************************************************)
(* The order of the upserts of a run.                                      *)
(***************************************************************************)
\* The batch of the i-th candidate of the run.
BatchOf(i) == (i - 1) \div ChunkSize + 1

\* The candidates of the run whose batch has committed.
CommittedIndexes == {i \in 1..Len(run.entries) : BatchOf(i) < run.batch}

\* C32: within one persistence run, a candidate whose path is a proper
\* ancestor of another candidate's path is upserted before it and committed
\* in the same batch or an earlier one, so that after every committed batch
\* no committed candidate has a candidate ancestor that is still uncommitted:
\* the rows of both are in the table.
C32_DepthOrdering ==
    pc = "persist" =>
        /\ \A i, j \in 1..Len(run.entries) :
              Below(run.entries[j].path, run.entries[i].path) =>
                 i < j /\ BatchOf(i) <= BatchOf(j)
        /\ \A j \in CommittedIndexes : \A i \in 1..Len(run.entries) :
              Below(run.entries[j].path, run.entries[i].path) =>
                 /\ i \in CommittedIndexes
                 /\ HasRow(files, run.entries[i].path)
                 /\ HasRow(files, run.entries[j].path)

\* C32 witness: the first batch of a run has committed a directory while a
\* candidate below that directory waits in a later batch.
C32_Witness ==
    /\ pc = "persist"
    /\ run.batch > 1
    /\ \E i \in CommittedIndexes : \E j \in 1..Len(run.entries) :
          /\ j \notin CommittedIndexes
          /\ Below(run.entries[j].path, run.entries[i].path)
          /\ HasRow(files, run.entries[i].path)
          /\ ~HasRow(files, run.entries[j].path)

(***************************************************************************)
(* The two passes of an index run, the first one step by step              *)
(* (specification SpecCollect): the candidates arrive one at a time while  *)
(* readers call get_children and search_path.                              *)
(***************************************************************************)
\* The candidates the first pass of the run yields when it has finished.
RunCandidates == CollectEntries(fs, RunManager, run.root)

Range(seq) == {seq[i] : i \in DOMAIN seq}

\* The bound on the number of index runs of a behaviour.
MaxRuns == 2

\* index_folder up to the start of the walk: the settings are read, the rule
\* files discovered.
StartTraversal(root) ==
    /\ pc = "idle"
    /\ ops < MaxRuns
    /\ Exists(fs, root)
    /\ run' = [NoRun EXCEPT !.root = root]
    /\ pre' = files
    /\ pc' = "traverse"
    /\ result' = NoResult
    /\ ops' = ops + 1
    /\ UNCHANGED <<settings, history, cache, progress, fs, rules, files, respect, last>>

\* The parallel bridge delivers one more candidate, in any order.
CollectOne ==
    /\ pc = "traverse"
    /\ \E e \in RunCandidates.entries \ Range(run.entries) :
          run' = [run EXCEPT !.entries = Append(@, e)]
    /\ UNCHANGED <<settings, history, cache, progress, fs, rules, files, respect, pc, pre, last, result, ops>>

\* collect() has returned: db.lock(), then the sort by depth.
LockStore ==
    /\ pc = "traverse"
    /\ Range(run.entries) = RunCandidates.entries
    /\ run' = [run EXCEPT !.entries = SortEntriesByDepth(@),
                          !.processed_count = RunCandidates.processed_count,
                          !.ignored_count = RunCandidates.ignored_count,
                          !.error_count = RunCandidates.error_count]
    /\ pc' = "persist"
    /\ UNCHANGED <<settings, history, cache, progress, fs, rules, files, respect, pre, last, result, ops>>

BlankQueries == {<<>>, <<" ">>}

NextCollect ==
    \/ \E root \in {Root, Src} : StartTraversal(root)
    \/ CollectOne
    \/ LockStore
    \/ PersistBatch
    \/ PersistBatchFails
    \/ IndexFolderReturns
    \/ \E parent_path \in ReaderArgs : GetChildrenCall(parent_path)
    \/ \E pattern \in BlankQueries : SearchPathCall(pattern)

SpecCollect == Init /\ [][NextCollect]_vars

\* C33: the run does not hold the store's lock during the traversal and
\* takes it only after the complete candidate list has been collected; no
\* row is inserted or updated before the traversal has finished; a
\* get_children or search_path call issued during the traversal completes
\* without waiting for the run.
C33_CollectThenPersist ==
    /\ [](pc = "traverse" =>
             /\ ~HoldsStore(pc)
             /\ files = pre
             /\ \A parent_path \in ReaderArgs : ENABLED GetChildrenCall(parent_path)
             /\ \A pattern \in BlankQueries : ENABLED SearchPathCall(pattern))
    /\ [][/\ (HoldsStore(pc') /\ ~HoldsStore(pc)) =>
                 Range(run'.entries) = RunCandidates.entries
          /\ files' # files =>
                 HoldsStore(pc) /\ Range(run.entries) = RunCandidates.entries]_vars

\* C33 witness: during the traversal of a second run, with candidates
\* collected and more to come, a reader has listed rows of the first run.
C33_Witness ==
    /\ pc = "traverse"
    /\ run.entries # <<>>
    /\ Range(run.entries) # RunCandidates.entries
    /\ result.cmd = "get_children"
    /\ result.value.entries # {}

(***************************************************************************)
(* Regex queries (specification SpecSearch).                               *)
(***************************************************************************)
\* The last command was a search whose free text was compiled as a regex.
AnsweredRegex ==
    /\ result.cmd = "search_path"
    /\ AnsweredFilter.regex_pattern # None

RegexMatchesRow(re, r) == RegexIsMatch(re, r.name) \/ RegexIsMatch(re, r.path)

\* C34: for a query whose free text compiles as a regex, the result holds
\* exactly the fetched candidates whose name or path matches the pattern
\* without regard to case, and the score of each is 50 when the pattern
\* matches the name and 10 when it matches the path only, whatever score a
\* file: or dir: token gave.
C34_RegexResults ==
    AnsweredRegex =>
        LET re == Unwrap(AnsweredFilter.regex_pattern)
            list == result.value.results
            returned == {list[i].path : i \in DOMAIN list}
        IN  /\ \E fetched \in Fetches(files, AnsweredFilter) :
                  returned = {r.path : r \in {r \in fetched : RegexMatchesRow(re, r)}}
            /\ Len(list) = Cardinality(returned)
            /\ \A i \in DOMAIN list :
                  /\ RegexMatchesRow(re, list[i])
                  /\ list[i].score = IF RegexIsMatch(re, list[i].name) THEN 50 ELSE 10

\* C34 witness: "file:a s/." was answered with the file /s/a, whose name is
\* the file: token and whose path alone matches the regex: its score is 10.
C34_Witness ==
    /\ AnsweredRegex
    /\ AnsweredFilter.file_name = Some(<<"a">>)
    /\ \E i \in DOMAIN result.value.results :
          /\ result.value.results[i].name = <<"a">>
          /\ result.value.results[i].score = 10
          /\ ComputeScore(<<"a">>, result.value.results[i].path, <<"a">>, FALSE) > 10

(***************************************************************************)
(* The fingerprint column (specification SpecReplace).                     *)
(***************************************************************************)
\* The fingerprint of the row is the one its own columns give.
FingerprintOfColumns(r) ==
    IF r.is_dir THEN r.fingerprint = None
    ELSE IsSome(r.mtime) =>
            /\ IsSome(r.size)
            /\ r.fingerprint = Some(Fingerprint(Unwrap(r.mtime), Unwrap(r.size)))

\* C35: in every index state reached through index runs each directory row
\* has no fingerprint and each file row with a known mtime has the
\* fingerprint "<mtime>_<size>" of its own mtime and size; an update never
\* changes one of size, mtime and fingerprint without the other two: the
\* three columns of a changed row are those of one candidate of the run.
C35_FingerprintConsistency ==
    /\ [](\A r \in files : FingerprintOfColumns(r))
    /\ [][\A r \in files : \A u \in files' :
             (/\ u.path = r.path
              /\ <<u.size, u.mtime, u.fingerprint>> # <<r.size, r.mtime, r.fingerprint>>)
             => \E i \in 1..Len(run.entries) :
                   /\ run.entries[i].path = u.path
                   /\ u.size = run.entries[i].size
                   /\ u.mtime = run.entries[i].mtime
                   /\ u.fingerprint = run.entries[i].fingerprint]_vars

(***************************************************************************)
(* Navigation over the index (specification SpecTraverse).                 *)
(***************************************************************************)
\* The arguments of get_children that name the top level or an existing row.
NavigationArgs(tbl) == {None} \cup {Some(p.path) : p \in tbl}

\* The listings in which the row appears.
ListingsOf(tbl, r) ==
    {arg \in NavigationArgs(tbl) : \E c \in GetChildren(tbl, arg) : c.path = r.path}

\* Following parent_path from the row reaches, in at most n steps, a row of
\* the top-level listing.
RECURSIVE ReachesTopLevel(_, _, _)
ReachesTopLevel(tbl, r, n) ==
    \/ \E c \in GetChildren(tbl, None) : c.path = r.path
    \/ /\ n > 0
       /\ \E p \in tbl : /\ r.parent_path = Some(p.path)
                         /\ ReachesTopLevel(tbl, p, n - 1)

\* C36: every indexed entry is reachable by navigation: each row appears in
\* exactly one listing, that of get_children(None) or that of
\* get_children(Some(p)) for the path p of an existing row, once, and
\* following parent_path from any row reaches a row of get_children(None)
\* in finitely many steps.
C36_Navigable ==
    \A r \in files :
        /\ Cardinality(ListingsOf(files, r)) = 1
        /\ \A arg \in ListingsOf(files, r) :
              Cardinality({c \in GetChildren(files, arg) : c.path = r.path}) = 1
        /\ ReachesTopLevel(files, r, Cardinality(files))

\* C36 witness: the index holds /root, /root/src and /root/src/a.log; the
\* file is listed under /root/src only and reaches the top level in two steps.
C36_Witness ==
    /\ HasRow(files, Root) /\ HasRow(files, Src) /\ HasRow(files, SrcLog)
    /\ \A r \in files : r.path = SrcLog =>
          /\ ListingsOf(files, r) = {Some(Src)}
          /\ ReachesTopLevel(files, r, 2)
          /\ ~ReachesTopLevel(files, r, 1)

(***************************************************************************)
(* The counters of collect_entries under the parallel bridge               *)
(* (specification SpecCounters): the iterator hands each entry to one of   *)
(* the workers, whose steps interleave.                                    *)
(***************************************************************************)
\* A first pass that has handed out nothing: the entries taken from the
\* iterator, those the filter rejected and counted, those logged as errors,
\* and what each worker holds.
NoCollection ==
    [taken |-> {}, skipped |-> {}, errored |-> {},
     worker |-> [w \in Workers |-> [pc |-> "ready", item |-> <<>>]]]

\* What the walk of the run passes on and what its filter rejects.
RunTraversal == Traverse(fs, RunManager, run.root, TRUE)

\* An error arm that logs the failure without counting it.
ErrorCountUnchanged(count, ok) == count

\* The error counter after one entry: error_count.fetch_add(1) in the two
\* error arms, nothing for an entry that becomes a candidate.
ErrorCountAfter(count, ok) == IF ok THEN count ELSE count + 1

InitCounters ==
    /\ fs \in {[InitFs EXCEPT ![SrcLog].ok = a, ![RootIgnore].ok = b] : a, b \in BOOLEAN}
    /\ rules \in {[p \in {RootIgnore, SrcIgnore} |-> IF p = RootIgnore THEN a ELSE b]
                    : a \in RootRuleSets, b \in SrcRuleSets}
    /\ files = {}
    /\ respect = TRUE
    /\ pc = "idle"
    /\ run = NoRun
    /\ pre = {}
    /\ last = None
    /\ result = NoResult
    /\ ops = 0
    /\ progress = NoCollection
    /\ history = NoHistory
    /\ cache = NoCache
    /\ settings = NoSettings

\* collect_entries is called: the counters are created at zero.
StartCollect(root) ==
    /\ pc = "idle"
    /\ ops < MaxRuns
    /\ Exists(fs, root)
    /\ run' = [NoRun EXCEPT !.root = root]
    /\ progress' = NoCollection
    /\ pc' = "traverse"
    /\ result' = NoResult
    /\ ops' = ops + 1
    /\ UNCHANGED <<settings, history, cache, fs, rules, files, respect, pre, last>>

\* The iterator meets an entry the ignore resolver rejects: filter_entry
\* counts it and passes nothing on.
SkipIgnored ==
    /\ pc = "traverse"
    /\ \E p \in RunTraversal.ignored \ progress.skipped :
          progress' = [progress EXCEPT !.skipped = @ \cup {p}]
    /\ run' = [run EXCEPT !.ignored_count = @ + 1]
    /\ UNCHANGED <<settings, history, cache, fs, rules, files, respect, pc, pre, last, result, ops>>

\* A free worker takes the next entry from the bridge.
TakeEntry(w) ==
    /\ pc = "traverse"
    /\ progress.worker[w].pc = "ready"
    /\ \E p \in RunTraversal.yield \ progress.taken :
          progress' = [progress EXCEPT !.taken = @ \cup {p},
                                       !.worker[w] = [pc |-> "taken", item |-> p]]
    /\ UNCHANGED <<settings, history, cache, fs, rules, files, respect, pc, run, pre, last, result, ops>>

\* processed_count.fetch_add(1)
CountEntry(w) ==
    /\ pc = "traverse"
    /\ progress.worker[w].pc = "taken"
    /\ run' = [run EXCEPT !.processed_count = @ + 1]
    /\ progress' = [progress EXCEPT !.worker[w].pc = "counted"]
    /\ UNCHANGED <<settings, history, cache, fs, rules, files, respect, pc, pre, last, result, ops>>

\* The match on the entry: a candidate, or an error that is counted.
ClassifyEntry(w) ==
    /\ pc = "traverse"
    /\ progress.worker[w].pc = "counted"
    /\ LET p == progress.worker[w].item
           ok == DirEntryMetadataOk(fs, p)
       IN  /\ run' = [run EXCEPT
                        !.entries = IF ok THEN Append(@, FromDirEntry(fs, p)) ELSE @,
                        !.error_count = ErrorCountAfter(@, ok)]
           /\ progress' = [progress EXCEPT
                             !.errored = IF ok THEN @ ELSE @ \cup {p},
                             !.worker[w] = [pc |-> "ready", item |-> <<>>]]
    /\ UNCHANGED <<settings, history, cache, fs, rules, files, respect, pc, pre, last, result, ops>>

\* The iterator is exhausted and every worker is done: collect() returns and
\* the outcome is built from the candidates and two of the counters.
ReturnOutcome ==
    /\ pc = "traverse"
    /\ progress.taken = RunTraversal.yield
    /\ progress.skipped = RunTraversal.ignored
    /\ \A w \in Workers : progress.worker[w].pc = "ready"
    /\ result' = Returned("collect_entries", TRUE,
                          [entries |-> run.entries,
                           ignored_count |-> run.ignored_count,
                           error_count |-> run.error_count])
    /\ pc' = "idle"
    /\ UNCHANGED <<settings, history, cache, progress, fs, rules, files, respect, run, pre, last, ops>>

NextCounters ==
    \/ \E root \in {Root, Src} : StartCollect(root)
    \/ SkipIgnored
    \/ \E w \in Workers : TakeEntry(w)
    \/ \E w \in Workers : CountEntry(w)
    \/ \E w \in Workers : ClassifyEntry(w)
    \/ ReturnOutcome

SpecCounters == InitCounters /\ [][NextCounters]_vars

\* The step starts a new first pass, with new counters.
CountersCreated == pc = "idle" /\ pc' = "traverse"

C38_BestMatchKept ==
    AnsweredPlainText =>
        LET q == Unwrap(AnsweredFilter.plain_text)
            list == result.value.results
        IN  \A r \in files :
               ToLowercase(r.name) = ToLowercase(q) =>
                  \E i \in DOMAIN list :
                     /\ list[i].path = r.path
                     /\ \A k \in 1..(i - 1) : list[k].score >= list[i].score

====
